---- MODULE Spec2Model ----
(***************************************************************************)
(* A model of mdht, a Mainline DHT node (BEP5 + BEP44, IPv4 only).         *)
(*                                                                         *)
(* table.js   - the routing table (src/unnamed/part_007)                   *)
(* mdht.js    - the node: UDP receipt, outgoing queries, populate and act  *)
(*              (src/unnamed/part_004; src/mdht.js is an earlier revision) *)
(*                                                                         *)
(* Buffers are sequences of bytes (0..255).  Ids are idLen bytes long; the *)
(* model scales the sizes of the program down (2-byte ids, 2 contacts per  *)
(* bucket, ...) and says so at each definition.                            *)
(***************************************************************************)
EXTENDS Integers, Sequences, FiniteSets, Bags, TLC

(***************************************************************************)
(* Bounds of the model.                                                    *)
(***************************************************************************)
\* contacts per bucket; the program's defaultMaxContacts is 8
defaultMaxContacts == 2
\* the clock (Date.now()) runs from 1 to MaxNow
MaxNow == 2
\* unanswered queries at a time; the program's oq.pendingMax is 20
pendingMax == 2
\* check ticks before an unanswered query expires; oq.pendingTick is 5
pendingTick == 2
\* transaction ids wrap at TMod; the program's t counter wraps at 65536
TMod == 3
\* datagrams of one source processed between two resets; sr.spamLimit is 10
spamLimit == 2
\* calls of announcePeer, getPeers, getData or putData in a run
MaxOps == 1
\* housekeeping ticks in a run
MaxSweeps == 1
\* datagrams received in a run
MaxDatagrams == 2
\* queries received in a run of the node that only answers queries
MaxQueries == 3
\* contacts in the answer to find_node; the program's ut.numClosest is 8
numClosest == 2
\* peers returned by get_peers; the program's ps.peersLimit is 150
peersLimit == 2
\* bencoded length of a value v accepted by put; the program's ut.maxV is 1000
maxV == 8
\* seconds after which a stored peer expires; ps.timeout is 30 minutes
psTimeout == 1
\* seconds after which a stored datum expires; ds.timeout is 2 hours
dsTimeout == 2

(***************************************************************************)
(* ut: constants and utilities.                                            *)
(***************************************************************************)
idLen == 20
locLen == 6
nodeLen == 26
\* oq.match: contacts that share this many leading bytes with the table id
\* are blocked
oqMatch == 4
\* iq.match: targets stored share this many leading bytes with my.id
iqMatch == 2

zeros(n) == [ i \in 1..n |-> 0 ] \o <<>>

\* a 20-byte id whose first two bytes are b0 and b1, the others 0
Id(b0, b1) == <<b0, b1>> \o zeros(idLen - 2)

\* the id of the node, my.id: 101 00000 ...
MyId == Id(160, 0)

\* the identifiers the tables are exercised with, by the first bit x at which
\* they differ from MyId: x = 0 (0, 64, 32), x = 1 (192), x = 2 (128, 144),
\* x = 3 (176), and MyId itself
TableIds ==
  { Id(0, 0), Id(64, 0), Id(32, 0), Id(192, 0), Id(128, 0), Id(144, 0),
    Id(176, 0), MyId }

\* 6-byte locations: 10.0.0.n port 6881
Loc(n) == <<10, 0, 0, n, 26, 225>>

\* a contact.time that was never set (contacts made for temporary tables)
NoTime == -1

Min(a, b) == IF a < b THEN a ELSE b

\* buff[i] of JavaScript (0-based); undefined counts as 0 under & and ^
byteAt(buff, i) == IF i + 1 <= Len(buff) THEN buff[i + 1] ELSE 0

RECURSIVE xor(_, _)
xor(a, b) ==
  IF a = 0 /\ b = 0 THEN 0
  ELSE (((a % 2) + (b % 2)) % 2) + 2 * xor(a \div 2, b \div 2)

\* get bit b from an id (b = 0 is the most significant bit)
getBit(id, b) == (byteAt(id, b \div 8) \div (2 ^ (7 - (b % 8)))) % 2

(***************************************************************************)
(* table.js: a table is [id, isTemp, tree, numContacts, maxContacts]; the  *)
(* tree is a sequence of nodes <<E0, E1>>, each a sequence of contacts     *)
(* [id, loc, time].  Tree positions y, bucket selectors z and in-bucket    *)
(* indices i are 0-based as in the source.                                 *)
(***************************************************************************)
Table(id, isTemp, maxContacts) ==
  [ id |-> id, isTemp |-> isTemp, tree |-> << << <<>>, <<>> >> >>,
    numContacts |-> 0,
    maxContacts |-> IF maxContacts = 0 THEN defaultMaxContacts ELSE maxContacts ]

\* the most significant bit at which id differs from tid, or the bit length
RECURSIVE firstDiff(_, _, _)
firstDiff(id, tid, x) ==
  IF x >= Len(id) * 8 THEN x
  \* a byte in which the ids agree holds no differing bit
  ELSE IF x % 8 = 0 /\ byteAt(id, x \div 8) = byteAt(tid, x \div 8)
  THEN firstDiff(id, tid, x + 8)
  ELSE IF getBit(id, x) # getBit(tid, x) THEN x
  ELSE firstDiff(id, tid, x + 1)

RECURSIVE indexOfId(_, _, _)
indexOfId(contacts, id, i) ==
  IF i >= Len(contacts) THEN i
  ELSE IF contacts[i + 1].id = id THEN i
  ELSE indexOfId(contacts, id, i + 1)

bucket(tree, y, z) == tree[y + 1][z + 1]

\* the coordinates of id in the bucket z of tree node y
coordinates(table, id, y, z) ==
  [ y |-> y, z |-> z, i |-> indexOfId(bucket(table.tree, y, z), id, 0) ]

\* x is the first bit at which id differs from the table id, tip the index
\* of the last tree node
locate(table, id, x, tip) ==
  IF x <= tip THEN coordinates(table, id, x, 0) ELSE coordinates(table, id, tip, 1)

findContact(table, id) ==
  locate(table, id, firstDiff(id, table.id, 0), Len(table.tree) - 1)

setBucket(tree, y, z, contacts) ==
  [ tree EXCEPT ![y + 1] = [ @ EXCEPT ![z + 1] = contacts ] ]

\* the forEach of the split: push every old element 1 contact where
\* findContact puts it in the grown tree
RECURSIVE redistribute(_, _, _)
\* this.tree[y][z].push(c), f the coordinates of c
pushAt(table, f, c) ==
  [ table EXCEPT !.tree = setBucket(@, f.y, f.z, Append(bucket(@, f.y, f.z), c)) ]

redistribute(table, contacts, n) ==
  IF n > Len(contacts) THEN table
  ELSE redistribute(pushAt(table, findContact(table, contacts[n].id), contacts[n]),
                    contacts, n + 1)

\* a split that leaves the old element 1 contacts where they were
splitKeepOld(table, y, z, pushed) ==
  redistribute([ table EXCEPT !.tree = Append(@, << <<>>, <<>> >>),
                              !.numContacts = @ + 1 ],
               pushed, 1)

\* a split that moves the old contacts only, not the one being added
splitDropNew(table, y, z, pushed) ==
  [ redistribute([ table EXCEPT !.tree = Append(@, << <<>>, <<>> >>) ],
                 SubSeq(pushed, 1, Len(pushed) - 1), 1)
      EXCEPT !.tree = setBucket(@, y, z, <<>>) ]

\* a split that grows the tree by two nodes
splitDeep(table, y, z, pushed) ==
  [ redistribute([ table EXCEPT !.tree = @ \o << << <<>>, <<>> >>, << <<>>, <<>> >> >>,
                                !.numContacts = @ + 1 ],
                 pushed, 1)
      EXCEPT !.tree = setBucket(@, y, z, <<>>) ]

\* z === 1, split: the tree grows by one node, the old element 1 contacts
\* and the new one (pushed) move to it, and the old element 1 is emptied
split(table, y, z, pushed) ==
  [ redistribute([ table EXCEPT !.tree = Append(@, << <<>>, <<>> >>),
                                !.numContacts = @ + 1 ],
                 pushed, 1)
      EXCEPT !.tree = setBucket(@, y, z, <<>>) ]

\* addContact once the coordinates f of the contact c are known; contacts
\* is the bucket they point into
addAt(table, c, f, contacts) ==
  IF f.i < Len(contacts)
  THEN [ table EXCEPT !.tree =
           setBucket(@, f.y, f.z, [ contacts EXCEPT ![f.i + 1] = c ]) ]
  ELSE IF Len(contacts) < table.maxContacts
  THEN [ table EXCEPT !.tree = setBucket(@, f.y, f.z, Append(contacts, c)),
                      !.numContacts = @ + 1 ]
  ELSE IF f.z = 0 THEN table
  ELSE split(table, f.y, f.z, Append(contacts, c))

addFound(table, c, f) == addAt(table, c, f, bucket(table.tree, f.y, f.z))

addContact(table, contact, now) ==
  IF ~table.isTemp /\ contact.id = table.id THEN table
  ELSE IF table.isTemp THEN addFound(table, contact, findContact(table, contact.id))
  ELSE addFound(table, [ contact EXCEPT !.time = now ],
                findContact(table, contact.id))

RECURSIVE concatE0(_, _)
concatE0(tree, n) ==
  IF n > Len(tree) THEN <<>> ELSE tree[n][1] \o concatE0(tree, n + 1)

allContacts(table) == concatE0(table.tree, 1) \o table.tree[Len(table.tree)][2]

\* a comparator that looks at the first byte only
cmpFirstByte(a, b, id, i) ==
  xor(byteAt(a.id, 0), byteAt(id, 0)) - xor(byteAt(b.id, 0), byteAt(id, 0))

\* the comparator of closestContacts: negative, zero or positive
RECURSIVE cmpDist(_, _, _, _)
cmpDist(a, b, id, i) ==
  IF i >= Len(a.id) THEN 0
  ELSE LET aByte == xor(byteAt(a.id, i), byteAt(id, i))
           bByte == xor(byteAt(b.id, i), byteAt(id, i))
       IN  IF aByte = bByte THEN cmpDist(a, b, id, i + 1) ELSE aByte - bByte

\* Array.prototype.sort with the comparator of closestContacts, as a stable
\* insertion sort
RECURSIVE insertByDist(_, _, _)
insertByDist(sorted, c, id) ==
  IF sorted = <<>> THEN <<c>>
  ELSE IF cmpDist(sorted[Len(sorted)], c, id, 0) <= 0 THEN Append(sorted, c)
  ELSE Append(insertByDist(SubSeq(sorted, 1, Len(sorted) - 1), c, id),
              sorted[Len(sorted)])

RECURSIVE sortByDist(_, _, _, _)
sortByDist(seq, n, acc, id) ==
  IF n > Len(seq) THEN acc
  ELSE sortByDist(seq, n + 1, insertByDist(acc, seq[n], id), id)

closestContacts(table) ==
  LET tipNode == table.tree[Len(table.tree)]
  IN  sortByDist(tipNode[1] \o tipNode[2], 1, <<>>, table.id)

RECURSIVE addAll(_, _, _)
addAll(table, contacts, n) ==
  IF n > Len(contacts) THEN table
  ELSE addAll(addContact(table, contacts[n], NoTime), contacts, n + 1)

createTempTable(table, id) ==
  addAll(Table(id, TRUE, table.maxContacts), allContacts(table), 1)

\* if (!this.isTemp) contact.time = Date.now(): the contact object after
\* addContact has run on it
written(table, contact, now) ==
  IF ~ table.isTemp /\ contact.id # table.id
  THEN [ contact EXCEPT !.time = now ] ELSE contact

\* the table that holds the contact object, seen after a write to the object
withObject(table, contact) ==
  LET f == findContact(table, contact.id)
      b == bucket(table.tree, f.y, f.z)
  IN  IF f.i < Len(b)
      THEN [ table EXCEPT !.tree =
               setBucket(@, f.y, f.z, [ b EXCEPT ![f.i + 1] = contact ]) ]
      ELSE table

\* tempTable.addContact(contact) seen from both tables, p = [source, temp];
\* shared tells that contact is an object held by the source
tempAdd(p, contact, shared, now) ==
  [ source |-> IF shared THEN withObject(p.source, written(p.temp, contact, now))
               ELSE p.source,
    temp |-> addContact(p.temp, written(p.temp, contact, now), now) ]

RECURSIVE shareAll(_, _, _)
shareAll(p, contacts, n) ==
  IF n > Len(contacts) THEN p
  ELSE shareAll(tempAdd(p, contacts[n], TRUE, NoTime), contacts, n + 1)

\* a createTempTable whose table stamps the contacts it is given
stampingTempTable(table, id) ==
  shareAll([ source |-> table, temp |-> Table(id, FALSE, table.maxContacts) ],
           allContacts(table), 1)

\* createTempTable seen from both tables: the contacts of the source are
\* handed to the temporary table as the objects they are
sharedTempTable(table, id) ==
  shareAll([ source |-> table, temp |-> Table(id, TRUE, table.maxContacts) ],
           allContacts(table), 1)

removeAt(seq, i) ==
  IF i < Len(seq) THEN SubSeq(seq, 1, i) \o SubSeq(seq, i + 2, Len(seq)) ELSE seq

\* the first filter of refreshTable: contacts with time 0 are dropped and
\* spliced out of the tree, the others are kept in allContacts order
RECURSIVE dropUnresponsive(_, _, _, _, _)
\* contacts.splice(i, 1) and --numContacts at the coordinates f, b the
\* bucket they point into
spliceAt(table, f, b) ==
  [ table EXCEPT !.tree = setBucket(@, f.y, f.z, removeAt(b, f.i)),
                 !.numContacts = @ - (IF f.i < Len(b) THEN 1 ELSE 0) ]

spliceFound(table, f) == spliceAt(table, f, bucket(table.tree, f.y, f.z))

RECURSIVE dropQuietly(_, _, _, _, _)
\* a first filter that splices the contacts out without calling drop
dropQuietly(table, all, n, kept, drops) ==
  IF n > Len(all) THEN [ table |-> table, kept |-> kept, drops |-> drops ]
  ELSE IF all[n].time # 0
  THEN dropQuietly(table, all, n + 1, Append(kept, all[n]), drops)
  ELSE dropQuietly(spliceFound(table, findContact(table, all[n].id)),
                   all, n + 1, kept, drops)

dropUnresponsive(table, all, n, kept, drops) ==
  IF n > Len(all) THEN [ table |-> table, kept |-> kept, drops |-> drops ]
  ELSE IF all[n].time # 0
  THEN dropUnresponsive(table, all, n + 1, Append(kept, all[n]), drops)
  ELSE dropUnresponsive(spliceFound(table, findContact(table, all[n].id)),
                        all, n + 1, kept, Append(drops, all[n].loc))

\* sort((a, b) => a.time - b.time), stable
RECURSIVE insertByTime(_, _)
insertByTime(sorted, c) ==
  IF sorted = <<>> THEN <<c>>
  ELSE IF sorted[Len(sorted)].time - c.time <= 0 THEN Append(sorted, c)
  ELSE Append(insertByTime(SubSeq(sorted, 1, Len(sorted) - 1), c),
              sorted[Len(sorted)])

RECURSIVE sortByTime(_, _, _)
sortByTime(seq, n, acc) ==
  IF n > Len(seq) THEN acc
  ELSE sortByTime(seq, n + 1, insertByTime(acc, seq[n]))

\* contact.time = 0 on a contact object that lives in the tree
staleAt(table, f, b) ==
  IF f.i < Len(b)
  THEN [ table EXCEPT !.tree =
           setBucket(@, f.y, f.z, [ b EXCEPT ![f.i + 1].time = 0 ]) ]
  ELSE table

staleFound(table, f) == staleAt(table, f, bucket(table.tree, f.y, f.z))

markStale(table, id) == staleFound(table, findContact(table, id))

RECURSIVE markAll(_, _, _)
markAll(table, stalest, n) ==
  IF n > Len(stalest) THEN table
  ELSE markAll(markStale(table, stalest[n].id), stalest, n + 1)

locsOf(contacts) == [ n \in 1..Len(contacts) |-> contacts[n].loc ]

\* refreshTable(ping, drop): the table afterwards, the locations pinged and
\* the locations dropped, in call order
\* the tip node is rebuilt when the table holds more than maxContacts
\* contacts and the tip node fewer
consolidate(marked) ==
  IF Len(allContacts(marked)) > marked.maxContacts
     /\ Len(closestContacts(marked)) < marked.maxContacts
  THEN [ marked EXCEPT !.tree = createTempTable(marked, marked.id).tree ]
  ELSE marked

\* the second filter: index <= ~~(numContacts * 0.1), index 0-based
stalestOf(sorted, numContacts) ==
  SubSeq(sorted, 1, Min(Len(sorted), (numContacts \div 10) + 1))

\* the contacts pinged have their time set to 0
pingStalest(d, stalest) ==
  [ table |-> consolidate(markAll(d.table, stalest, 1)),
    pings |-> locsOf(stalest), drops |-> d.drops ]

dropped(d) == pingStalest(d, stalestOf(sortByTime(d.kept, 1, <<>>), d.table.numContacts))

refreshTable(table) ==
  dropped(dropUnresponsive(table, allContacts(table), 1, <<>>, <<>>))

(***************************************************************************)
(* ut, continued: byte utilities, bencoding of the values that are hashed  *)
(* or signed, and stand-ins for SHA-1 and ed25519.                         *)
(***************************************************************************)
\* null and undefined of JavaScript
Null == [ null |-> TRUE ]

\* obj.key is present (and, for the Buffers and dictionaries of a decoded
\* message, truthy)
Has(obj, key) == key \in DOMAIN obj

slice(buff, from, to) == SubSeq(buff, from + 1, Min(to, Len(buff)))

byteMatch(a, b, match) == slice(a, 0, match) = slice(b, 0, match)

intToBuff2(int) == << (int \div 256) % 256, int % 256 >>

\* (buff[0] << 8) + buff[1]; NaN (here -1) when buff[1] is undefined
buff2ToInt(buff) ==
  IF Len(buff) < 2 THEN -1 ELSE byteAt(buff, 0) * 256 + byteAt(buff, 1)

\* rinfo is [family, address, port], the address as its four numbers
makeLoc(address, port) == address \o intToBuff2(port)

unmakeLoc(loc) ==
  [ address |-> slice(loc, 0, 4), port |-> buff2ToInt(slice(loc, 4, 6)) ]

splitBuff(buff, size) ==
  [ i \in 1..((Len(buff) + size - 1) \div size) |->
      slice(buff, (i - 1) * size, i * size) ] \o <<>>

\* buff.indexOf(part): the first offset at which part occurs in buff, or -1
indexOf(buff, part, from) ==
  LET at == { k \in from..(Len(buff) - Len(part)) :
                slice(buff, k, k + Len(part)) = part }
  IN  IF at = {} THEN -1 ELSE CHOOSE k \in at : \A j \in at : k <= j

\* the decimal digits of a natural number, in ASCII
RECURSIVE digits(_)
digits(n) == IF n < 10 THEN << 48 + n >> ELSE digits(n \div 10) \o << 48 + (n % 10) >>

\* ben.encode of a Buffer and of an integer
encodeBuff(buff) == digits(Len(buff)) \o << 58 >> \o buff
encodeInt(n) == << 105 >> \o digits(n) \o << 101 >>

\* SHA-1 stand-in: a 20-byte digest computed from every byte of the input;
\* the first byte is that of MyId for half of the digests
\* (a sum of the bytes from index n on, each weighted by its position)
digest(buff, n, h) ==
  (h + BagCardinality([ i \in n..Len(buff) |->
                          (buff[i] + 1) * (2 * ((i * 7919) % 125) + 1) ])) % 65521

sha1(buff) ==
  LET h == digest(buff, 1, 7)
  IN  << IF h % 2 = 0 THEN 160 ELSE 64, 0, h \div 256, h % 256 >> \o zeros(idLen - 4)

keyLen == 32
sigLen == 64
saltLen == 64

\* my.keyPair.publicKey
PublicKey == << 107 >> \o zeros(keyLen - 1)

\* a verification that accepts every signature
verifyAny(sig, message, publicKey) == TRUE

\* ed25519 stand-in: the signature of a message under a key is a digest of
\* both, and verification recomputes it
sign(message, publicKey) == sha1(publicKey \o message) \o zeros(sigLen - idLen)
verify(sig, message, publicKey) == sig = sign(message, publicKey)

\* (a salt is a Buffer or Null: the two are told apart by their text)
makeMutableTarget(k, salt) ==
  sha1(IF ToString(salt) # ToString(Null) THEN k \o salt ELSE k)
makeImmutableTarget(v) == sha1(encodeBuff(v))

\* the bencoded dictionaries {salt}, {seq} and {v} without their d and e
packSeqSalt(seq, v, salt) ==
  (IF ToString(salt) # ToString(Null) /\ Len(salt) > 0
   THEN << 52, 58, 115, 97, 108, 116 >> \o encodeBuff(salt) ELSE <<>>)
  \o << 51, 58, 115, 101, 113 >> \o encodeInt(seq)
  \o << 49, 58, 118 >> \o encodeBuff(v)

\* ut.addContact: the contact is offered to the table unless its id shares
\* oqMatch leading bytes with the table id
utAddContact(table, id, loc, now) ==
  IF byteMatch(id, table.id, oqMatch) THEN table
  ELSE addContact(table, [ id |-> id, loc |-> loc, time |-> NoTime ], now)

(***************************************************************************)
(* The node.  Its operations are written as functions of a node state S,   *)
(* a record of                                                             *)
(*   table, now        my.table and Date.now()                             *)
(*   spam              sr.spam: datagrams counted per source               *)
(*   tCount            oq.tCount                                           *)
(*   pendingQueries    oq.pendingQueries: t -> [tick, done, qid]           *)
(*   waitingQueries    oq.waitingQueries: sequence of [q, a, loc, done,    *)
(*                     qid]                                                *)
(*   boot              the closure of the populate call on my.table        *)
(*   acts              the closures of the oq.act calls, in call order     *)
(*   secret, oldSecret, peers, data   iq, ps and ds                        *)
(*   out               what the running handler sent, emitted and called   *)
(*                     back, in order                                      *)
(*   qlog              history: per query object qid, how often it was     *)
(*                     transmitted and its continuation invoked            *)
(* A continuation (the done of a query) is a record [k, op, loc]: k is     *)
(* "find" (populate), "pre" or "post" (act) or "ping"; op is the act call  *)
(* the closure belongs to, 0 for the populate call on my.table.  qid       *)
(* identifies the query object.                                            *)
(***************************************************************************)
emit(S, key, val) ==
  [ S EXCEPT !.out = Append(@, [ type |-> "update", key |-> key, val |-> val ]) ]

\* sr.send: nothing is sent to port 0
send(S, mess, loc) ==
  IF unmakeLoc(loc).port # 0
  THEN [ S EXCEPT !.out = Append(@, [ type |-> "send", mess |-> mess, loc |-> loc ]) ]
  ELSE S

remove(f, t) == [ k \in (DOMAIN f) \ { t } |-> f[k] ]

pendingBufferFullStrict(S) == Cardinality(DOMAIN S.pendingQueries) > pendingMax

pendingBufferFull(S) == Cardinality(DOMAIN S.pendingQueries) >= pendingMax

\* the arguments object of a query: the postArgs of an act call are one
\* object shared by all its post queries, [ref |-> op]
argsOf(S, a) == IF Has(a, "ref") THEN S.acts[a.ref].postArgs ELSE a

\* oq.query for the query object w = [q, a, loc, done, qid]
query(S, w) ==
  IF pendingBufferFull(S)
  THEN [ S EXCEPT !.waitingQueries = Append(@, w) ]
  ELSE LET a == [ id |-> MyId ] @@ argsOf(S, w.a)
           S1 == IF Has(w.a, "ref")
                 THEN [ S EXCEPT !.acts[w.a.ref].postArgs = a ] ELSE S
           mess == [ t |-> intToBuff2(S.tCount), y |-> "q", q |-> w.q, a |-> a ]
           S2 == [ S1 EXCEPT
                     !.pendingQueries =
                        (S.tCount :> [ tick |-> pendingTick, done |-> w.done,
                                       qid |-> w.qid ]) @@ @,
                     !.tCount = (S.tCount + 1) % TMod,
                     !.qlog[w.qid].sent = @ + 1 ]
       IN  send(S2, mess, w.loc)

\* a call of oq.query from populate, act or refreshTable: a new query object
issue(S, q, a, loc, done) ==
  LET qid == CHOOSE n \in 1..(Cardinality(DOMAIN S.qlog) + 1) : n \notin DOMAIN S.qlog
      S1 == [ S EXCEPT !.qlog = (qid :> [ invoked |-> 0, sent |-> 0,
                                         full |-> pendingBufferFull(S),
                                         promoted |-> FALSE ]) @@ @ ]
  IN  query(S1, [ q |-> q, a |-> a, loc |-> loc, done |-> done, qid |-> qid ])

(***************************************************************************)
(* oq.populate.  The closure of a call is [visited, pending]; its table is *)
(* my.table for the call made at start-up and the temporary table of the   *)
(* act call otherwise.                                                     *)
(***************************************************************************)
popOf(S, p) == IF p = 0 THEN S.boot ELSE S.acts[p].pop
setPop(S, p, v) ==
  IF p = 0 THEN [ S EXCEPT !.boot = v ] ELSE [ S EXCEPT !.acts[p].pop = v ]
popTable(S, p) == IF p = 0 THEN S.table ELSE S.acts[p].table
setPopTable(S, p, t) ==
  IF p = 0 THEN [ S EXCEPT !.table = t ] ELSE [ S EXCEPT !.acts[p].table = t ]

find(S, p, loc) ==
  LET c == popOf(S, p)
  IN  IF indexOf(c.visited, loc, 0) >= 0 THEN S
      ELSE issue(setPop(S, p, [ c EXCEPT !.visited = @ \o loc, !.pending = @ + 1 ]),
                 "find_node", [ target |-> popTable(S, p).id ], loc,
                 [ k |-> "find", op |-> p, loc |-> loc ])

RECURSIVE findEach(_, _, _, _)
findEach(S, p, locs, n) ==
  IF n > Len(locs) THEN S ELSE findEach(find(S, p, locs[n]), p, locs, n + 1)

\* locs.forEach(find): a location already visited, or met earlier in locs,
\* is one that find returns on at once
findAll(S, p, locs) ==
  LET visited == popOf(S, p).visited
      first(n) == /\ indexOf(visited, locs[n], 0) < 0
                  /\ \A m \in 1..(n - 1) : locs[m] # locs[n]
      ns == SelectSeq([ n \in 1..Len(locs) |-> n ] \o <<>>, first)
  IN  findEach(S, p, [ n \in 1..Len(ns) |-> locs[ns[n]] ] \o <<>>, 1)

\* my.update
myUpdate(S) ==
  LET closest == closestContacts(S.table)
  IN  emit(emit(S, "locs", locsOf(allContacts(S.table))),
           "closest", [ n \in 1..Len(closest) |-> closest[n].id ])

(***************************************************************************)
(* oq.act (src/mdht.js) and the public interface pi.  The closure of a     *)
(* call is [kind, target, pre, preArgs, post, postArgs, table, pop,        *)
(* started, numVisited, pending, data, numStored, doneCalls, doneClean];   *)
(* post is "" for null.                                                    *)
(***************************************************************************)
RECURSIVE uniquePeers(_, _, _, _)
uniquePeers(values, n, unique, peers) ==
  IF n > Len(values) THEN [ unique |-> unique, peers |-> peers ]
  ELSE IF indexOf(unique, values[n], 0) >= 0
       THEN uniquePeers(values, n + 1, unique, peers)
       ELSE uniquePeers(values, n + 1, unique \o values[n], Append(peers, values[n]))

\* the done of pi.getPeers
RECURSIVE getPeersDone(_, _, _, _)
getPeersDone(data, n, unique, peers) ==
  IF n > Len(data) THEN peers
  ELSE IF ~ Has(data[n], "values") THEN getPeersDone(data, n + 1, unique, peers)
       ELSE LET u == uniquePeers(data[n].values, 1, unique, peers)
            IN  getPeersDone(data, n + 1, u.unique, u.peers)

\* an integer that is present and not 0
nonZero(res, key) == Has(res, key) /\ res[key] # 0

\* obj[key] = res[from], where undefined is an absent key
assign(obj, key, res, from) ==
  IF Has(res, from) THEN (key :> res[from]) @@ obj ELSE remove(obj, key)

\* the done of pi.getData: acc is [result, seq, numFound]
RECURSIVE getDataDone(_, _, _, _, _)
getDataDone(results, n, target, salt, acc) ==
  IF n > Len(results) THEN acc
  ELSE
    LET res == results[n]
        skip == getDataDone(results, n + 1, target, salt, acc)
    IN  IF ~ Has(res, "v") THEN skip
        ELSE IF nonZero(res, "seq") \/ Has(res, "k") \/ Has(res, "sig")
        THEN IF ~ (nonZero(res, "seq") /\ Has(res, "k") /\ Has(res, "sig")
                   /\ Len(res.k) = keyLen /\ Len(res.sig) = sigLen) THEN skip
             ELSE IF target # makeMutableTarget(res.k, salt) THEN skip
             ELSE IF ~ verify(res.sig, packSeqSalt(res.seq, res.v, salt), res.k)
             THEN skip
             ELSE IF res.seq > acc.seq
             THEN getDataDone(results, n + 1, target, salt,
                              [ result |-> res, seq |-> res.seq, numFound |-> 1 ])
             \* result.seq: the seq of the best response so far
             ELSE IF acc.result # Null /\ res.seq = acc.result.seq
             THEN getDataDone(results, n + 1, target, salt,
                              [ acc EXCEPT !.numFound = @ + 1 ])
             ELSE skip
        ELSE IF target # makeImmutableTarget(res.v) THEN skip
        ELSE getDataDone(results, n + 1, target, salt,
                         [ acc EXCEPT !.result = IF @ = Null THEN res ELSE @,
                                      !.numFound = @ + 1 ])

\* the get branch of the pre continuation of oq.act in the later revision
\* (part_004), which keeps value, seq and numFound in the closure of the
\* call instead of the responses: c is [value, seq, numFound], value is
\* Null or [v |-> res.v]
actGet(c, res, target, salt) ==
  IF ~ Has(res, "v") THEN c
  ELSE IF Len(encodeBuff(res.v)) > maxV THEN c
  ELSE IF nonZero(res, "seq") \/ Has(res, "k") \/ Has(res, "sig")
  THEN IF ~ (nonZero(res, "seq") /\ Has(res, "k") /\ Has(res, "sig")
             /\ Len(res.k) = keyLen /\ Len(res.sig) = sigLen) THEN c
       ELSE IF target # makeMutableTarget(res.k, salt) THEN c
       ELSE IF ~ verify(res.sig, packSeqSalt(res.seq, res.v, salt), res.k) THEN c
       ELSE IF res.seq > c.seq
       THEN [ c EXCEPT !.seq = res.seq, !.value = [ v |-> res.v ], !.numFound = 1 ]
       \* value.seq: a property of the value v itself, which a byte string
       \* does not have (undefined)
       ELSE IF c.value # Null /\ Has(c.value, "seq") /\ res.seq = c.value.seq
       THEN [ c EXCEPT !.numFound = @ + 1 ]
       ELSE c
  ELSE IF target # makeImmutableTarget(res.v) THEN c
  ELSE [ c EXCEPT !.value = IF @ = Null THEN [ v |-> res.v ] ELSE @,
                  !.numFound = @ + 1 ]

\* a query issued for the act call op (by its populate or by its callback)
\* is in the pending table or in the waiting queue
outstanding(S, op) ==
  \/ \E t \in DOMAIN S.pendingQueries : S.pendingQueries[t].done.op = op
  \/ \E n \in 1..Len(S.waitingQueries) : S.waitingQueries[n].done.op = op

RECURSIVE actAt(_, _, _, _, _, _, _, _, _)

\* the done handed to oq.act reports to the caller; doneClean is history: no
\* query of the call was outstanding whenever done was called.  The done of
\* a call of kind "crawl" calls pi.getPeers again with the same arguments;
\* the closure of the new call takes the place of the completed one, to
\* which the program holds no reference any more.
userDone(S, op) ==
  LET c == S.acts[op]
      args ==
        CASE c.kind \in { "getPeers", "crawl" } ->
               [ peers |-> getPeersDone(c.data, 1, <<>>, <<>>),
                 numVisited |-> c.numVisited ]
          [] c.kind = "getData" ->
               LET r == getDataDone(c.data, 1, c.target, c.salt,
                                    [ result |-> Null, seq |-> 0, numFound |-> 0 ])
               IN  [ v |-> IF r.result # Null THEN r.result.v ELSE Null,
                     seq |-> IF r.result # Null /\ Has(r.result, "seq")
                             THEN r.result.seq ELSE 0,
                     numVisited |-> c.numVisited, numFound |-> r.numFound ]
          [] OTHER -> [ numVisited |-> c.numVisited, numStored |-> c.numStored ]
      S1 == [ S EXCEPT !.acts[op].doneCalls = @ + 1,
                       !.acts[op].doneClean = @ /\ ~ outstanding(S, op),
                       !.out = Append(@, [ type |-> "done", op |-> op, args |-> args ]) ]
  IN  IF c.kind # "crawl" THEN S1
      ELSE actAt(S1, IF outstanding(S1, op) THEN Len(S1.acts) + 1 ELSE op, "crawl",
                 c.target, Null, "get_peers", [ info_hash |-> c.target ], "",
                 [ none |-> TRUE ])

\* a finish that does not wait for the other queries of the call
finishEager(S, op) == userDone([ S EXCEPT !.acts[op].pending = @ - 1 ], op)

finish(S, op) ==
  LET S1 == [ S EXCEPT !.acts[op].pending = @ - 1 ]
  IN  IF S1.acts[op].pending > 0 THEN S1 ELSE userDone(S1, op)

\* a pre continuation that keeps the first token of the call
preDoneFirst(S, op, loc, res) ==
  IF res = Null THEN finish(S, op)
  ELSE
    LET c == S.acts[op]
        S1 == IF Has(res, "v") \/ Has(res, "values")
              THEN [ S EXCEPT !.acts[op].data = Append(@, res),
                              !.out = Append(@, [ type |-> "onV", op |-> op,
                                                  res |-> res ]) ]
              ELSE S
        S2 == IF Has(res, "token") /\ c.post # ""
              THEN
                LET a0 == c.postArgs @@ [ token |-> res.token ]
                    a1 == IF Has(a0, "mutable")
                          THEN LET b == assign(remove(a0, "mutable"), "cas", res, "seq")
                               IN  IF ~ Has(b, "k")
                                   THEN assign(assign(assign(b, "seq", res, "seq"),
                                                      "k", res, "k"), "sig", res, "sig")
                                   ELSE b
                          ELSE a0
                IN  issue([ S1 EXCEPT !.acts[op].pending = @ + 1,
                                      !.acts[op].postArgs = a1 ],
                          c.post, [ ref |-> op ], loc,
                          [ k |-> "post", op |-> op, loc |-> loc ])
              ELSE S1
    IN  finish(S2, op)

\* the continuation of a pre query (get_peers or get) sent to loc
preDone(S, op, loc, res) ==
  IF res = Null THEN finish(S, op)
  ELSE
    LET c == S.acts[op]
        S1 == IF Has(res, "v") \/ Has(res, "values")
              THEN [ S EXCEPT !.acts[op].data = Append(@, res),
                              !.out = Append(@, [ type |-> "onV", op |-> op,
                                                  res |-> res ]) ]
              ELSE S
        S2 == IF Has(res, "token") /\ c.post # ""
              THEN
                LET a0 == [ token |-> res.token ] @@ c.postArgs
                    a1 == IF Has(a0, "mutable")
                          THEN LET b == assign(remove(a0, "mutable"), "cas", res, "seq")
                               IN  IF ~ Has(b, "k")
                                   THEN assign(assign(assign(b, "seq", res, "seq"),
                                                      "k", res, "k"), "sig", res, "sig")
                                   ELSE b
                          ELSE a0
                IN  issue([ S1 EXCEPT !.acts[op].pending = @ + 1,
                                      !.acts[op].postArgs = a1 ],
                          c.post, [ ref |-> op ], loc,
                          [ k |-> "post", op |-> op, loc |-> loc ])
              ELSE S1
    IN  finish(S2, op)

\* the continuation of a post query (announce_peer or put)
postDone(S, op, res) ==
  finish(IF res # Null THEN [ S EXCEPT !.acts[op].numStored = @ + 1 ] ELSE S, op)

RECURSIVE preAll(_, _, _, _)
preAll(S, op, contacts, n) ==
  IF n > Len(contacts) THEN S
  ELSE preAll(issue([ S EXCEPT !.acts[op].pending = @ + 1 ],
                    S.acts[op].pre, S.acts[op].preArgs, contacts[n].loc,
                    [ k |-> "pre", op |-> op, loc |-> contacts[n].loc ]),
              op, contacts, n + 1)

\* the done of the populate call of oq.act: a pre query to each of the
\* closest contacts of the temporary table
actPopulated(S, op, numVisited) ==
  preAll([ S EXCEPT !.acts[op].started = TRUE,
                    !.acts[op].numVisited = numVisited ],
         op, closestContacts(S.acts[op].table), 1)

\* done(visited.length / locLen) of a populate call
populateDone(S, p) ==
  LET numVisited == Len(popOf(S, p).visited) \div locLen
  IN  IF p = 0 THEN myUpdate(emit(S, "ready", numVisited))
      ELSE actPopulated(S, p, numVisited)

\* the locations of the nodes of a response that would be in the tip node of
\* the table
tipNodeLocs(table, nodes, maxY) ==
  LET inTip(node) == findContact(table, slice(node, 0, idLen)).y = maxY
      tip == SelectSeq(nodes, inTip)
  IN  [ n \in 1..Len(tip) |-> slice(tip[n], idLen, nodeLen) ] \o <<>>

\* the continuation of a find_node query sent to loc
findDone(S, p, loc, res) ==
  LET ok == /\ res # Null
            /\ Has(res, "id") /\ Len(res.id) = idLen
            /\ Has(res, "nodes") /\ Len(res.nodes) % nodeLen = 0
      S1 == IF ok /\ Len(res.nodes) \div nodeLen # 16
            THEN setPopTable(S, p, utAddContact(popTable(S, p), res.id, loc, S.now))
            ELSE S
      t1 == popTable(S1, p)
      maxY == Len(t1.tree) - 1
      nodes == splitBuff(res.nodes, nodeLen)
      tipLocs == tipNodeLocs(t1, nodes, maxY)
      S2 == IF ok THEN findAll(S1, p, tipLocs) ELSE S1
      S3 == setPop(S2, p, [ popOf(S2, p) EXCEPT !.pending = @ - 1 ])
  IN  IF popOf(S3, p).pending > 0 THEN S3 ELSE populateDone(S3, p)

\* oq.populate(table, locs, done)
populate(S, p, locs) ==
  LET S1 == findAll(setPop(S, p, [ visited |-> <<>>, pending |-> 0 ]), p, locs)
  IN  IF popOf(S1, p).pending # 0 THEN S1 ELSE populateDone(S1, p)

\* oq.act(target, pre, preArgs, onV, post, postArgs, done), its closure kept
\* as acts[op]
actAt(S, op, kind, target, salt, pre, preArgs, post, postArgs) ==
  LET table == createTempTable(S.table, target)
      c == [ kind |-> kind, target |-> target, salt |-> salt, pre |-> pre,
             preArgs |-> preArgs, post |-> post, postArgs |-> postArgs,
             table |-> table, pop |-> [ visited |-> <<>>, pending |-> 0 ],
             started |-> FALSE, numVisited |-> 0, pending |-> 0, data |-> <<>>,
             numStored |-> 0, doneCalls |-> 0, doneClean |-> TRUE ]
  IN  populate([ S EXCEPT !.acts = IF op > Len(@) THEN Append(@, c)
                                   ELSE [ @ EXCEPT ![op] = c ] ], op,
               locsOf(closestContacts(table)))

act(S, kind, target, salt, pre, preArgs, post, postArgs) ==
  actAt(S, Len(S.acts) + 1, kind, target, salt, pre, preArgs, post, postArgs)

getPeers(S, ih) ==
  act(S, "getPeers", ih, Null, "get_peers", [ info_hash |-> ih ], "", [ none |-> TRUE ])

\* pi.getPeers(ih, done) with a done that calls pi.getPeers(ih, done) again
crawl(S, ih) ==
  act(S, "crawl", ih, Null, "get_peers", [ info_hash |-> ih ], "", [ none |-> TRUE ])

announcePeer(S, ih, port) ==
  act(S, "announcePeer", ih, Null, "get_peers", [ info_hash |-> ih ], "announce_peer",
      [ info_hash |-> ih, port |-> port, implied_port |-> 1 ])

getData(S, target, salt) ==
  act(S, "getData", target, salt, "get", [ target |-> target ], "", [ none |-> TRUE ])

\* pi.putData(v, salt, mutable, reset): reset is Null or a target
putData(S, v, salt, mutable, reset) ==
  LET \* ~~(Date.now() / 1000)
      seq == S.now
      a0 == [ v |-> v, mutable |-> TRUE ]
      a1 == IF salt # Null THEN [ salt |-> salt ] @@ a0 ELSE a0
      a == IF ~ mutable THEN [ v |-> v ]
           ELSE IF reset # Null THEN a1
           ELSE [ seq |-> seq, k |-> PublicKey,
                  sig |-> sign(packSeqSalt(seq, v, salt), PublicKey) ] @@ a1
      target == IF ~ mutable THEN makeImmutableTarget(v)
                ELSE IF reset # Null THEN reset
                ELSE makeMutableTarget(PublicKey, salt)
  IN  act(S, "putData", target, salt, "get", [ target |-> target ], "put", a)

(***************************************************************************)
(* oq.check and oq.resp.                                                   *)
(***************************************************************************)
\* the continuation of the query object w is called with res
invoke(S, w, res) ==
  LET S1 == [ S EXCEPT !.qlog[w.qid].invoked = @ + 1,
                       !.out = Append(@, [ type |-> "call", qid |-> w.qid,
                                           res |-> res ]) ]
      d == w.done
  IN  CASE d.k = "find" -> findDone(S1, d.op, d.loc, res)
        [] d.k = "pre" -> preDone(S1, d.op, d.loc, res)
        [] d.k = "post" -> postDone(S1, d.op, res)
        [] OTHER -> S1

\* Object.entries(oq.pendingQueries): integer keys in ascending order
RECURSIVE entries(_, _)
entries(f, t) ==
  IF t >= TMod THEN <<>>
  ELSE (IF t \in DOMAIN f THEN << [ t |-> t, obj |-> f[t] ] >> ELSE <<>>)
       \o entries(f, t + 1)

\* the forEach of oq.check over the entries taken at its start: obj is the
\* query object of the entry, which a continuation may have replaced in the
\* table by the object of a new query with the same t
RECURSIVE expireLate(_, _, _)
\* an expire that gives every query one check tick more
expireLate(S, snapshot, n) ==
  IF n > Len(snapshot) THEN S
  ELSE
    LET t == snapshot[n].t
        obj == snapshot[n].obj
        same == t \in DOMAIN S.pendingQueries /\ S.pendingQueries[t].qid = obj.qid
    IN  IF obj.tick - 1 < 0
        THEN expireLate(invoke([ S EXCEPT !.pendingQueries = remove(@, t) ], obj, Null),
                        snapshot, n + 1)
        ELSE expireLate(IF same THEN [ S EXCEPT !.pendingQueries[t].tick = @ - 1 ] ELSE S,
                        snapshot, n + 1)

RECURSIVE expire(_, _, _)
expire(S, snapshot, n) ==
  IF n > Len(snapshot) THEN S
  ELSE
    LET t == snapshot[n].t
        obj == snapshot[n].obj
        same == t \in DOMAIN S.pendingQueries /\ S.pendingQueries[t].qid = obj.qid
    IN  IF obj.tick - 1 <= 0
        THEN expire(invoke([ S EXCEPT !.pendingQueries = remove(@, t) ], obj, Null),
                    snapshot, n + 1)
        ELSE expire(IF same THEN [ S EXCEPT !.pendingQueries[t].tick = @ - 1 ] ELSE S,
                    snapshot, n + 1)

RECURSIVE promoteLast(_)
\* a promote that takes the youngest waiting query first
promoteLast(S) ==
  IF Len(S.waitingQueries) > 0 /\ ~ pendingBufferFull(S)
  THEN LET w == S.waitingQueries[Len(S.waitingQueries)]
       IN  promoteLast(query([ S EXCEPT !.waitingQueries =
                                          SubSeq(@, 1, Len(@) - 1),
                                        !.qlog[w.qid].promoted = TRUE ], w))
  ELSE S

RECURSIVE promote(_)
promote(S) ==
  IF Len(S.waitingQueries) > 0 /\ ~ pendingBufferFull(S)
  THEN LET w == Head(S.waitingQueries)
       IN  promote(query([ S EXCEPT !.waitingQueries = Tail(@),
                                    !.qlog[w.qid].promoted = TRUE ], w))
  ELSE S

check(S) == promote(expire(S, entries(S.pendingQueries, 0), 1))

\* a resp that leaves the answered query in the pending table
respKeep(S, y, mess, rinfo) ==
  IF ~ Has(mess, "t") THEN S
  ELSE IF ~ Has(mess, "r") \/ ~ Has(mess.r, "id") THEN S
  ELSE
    LET t == buff2ToInt(mess.t)
    IN  IF t \in DOMAIN S.pendingQueries
        THEN LET w == S.pendingQueries[t]
                 S1 == [ S EXCEPT
                           !.table = utAddContact(@, mess.r.id,
                                       makeLoc(rinfo.address, rinfo.port), S.now) ]
             IN  IF y = "r" THEN invoke(S1, w, mess.r)
                 ELSE IF Has(mess, "e")
                 THEN emit(invoke(S1, w, Null), "error",
                           [ e |-> mess.e, rinfo |-> rinfo ])
                 ELSE S1
        ELSE S

\* oq.resp(y, mess, rinfo)
resp(S, y, mess, rinfo) ==
  IF ~ Has(mess, "t") THEN S
  ELSE IF ~ Has(mess, "r") \/ ~ Has(mess.r, "id") THEN S
  ELSE
    LET t == buff2ToInt(mess.t)
    IN  IF t \in DOMAIN S.pendingQueries
        THEN LET w == S.pendingQueries[t]
                 S1 == [ S EXCEPT
                           !.table = utAddContact(@, mess.r.id,
                                       makeLoc(rinfo.address, rinfo.port), S.now),
                           !.pendingQueries = remove(@, t) ]
             IN  IF y = "r" THEN invoke(S1, w, mess.r)
                 ELSE IF Has(mess, "e")
                 THEN emit(invoke(S1, w, Null), "error",
                           [ e |-> mess.e, rinfo |-> rinfo ])
                 ELSE S1
        ELSE S

(***************************************************************************)
(* ps and ds: peer and data storage.  peers is a sequence of [ih, peers],  *)
(* peers a sequence of [peer, time]; data is a sequence of [target,        *)
(* datum]: the keys of the objects in insertion order.                     *)
(***************************************************************************)
RECURSIVE indexOfKey(_, _, _, _)
indexOfKey(seq, field, key, n) ==
  IF n > Len(seq) THEN 0
  ELSE IF seq[n][field] = key THEN n
  ELSE indexOfKey(seq, field, key, n + 1)

\* a getPeers that returns every peer stored
psGetEvery(S, ih) ==
  LET n == indexOfKey(S.peers, "ih", ih, 1)
  IN  IF n = 0 THEN Null
      ELSE [ m \in 1..Len(S.peers[n].peers) |-> S.peers[n].peers[m].peer ] \o <<>>

\* ps.getPeers: Null (undefined) or at most peersLimit peers
psGetPeers(S, ih) ==
  LET n == indexOfKey(S.peers, "ih", ih, 1)
  IN  IF n = 0 THEN Null
      ELSE LET all == [ m \in 1..Len(S.peers[n].peers) |-> S.peers[n].peers[m].peer ]
           IN  slice(all, 0, peersLimit)

\* a putPeer that stores a peer only under an infohash it does not hold yet
psPutFirst(S, ih, peer) ==
  IF indexOfKey(S.peers, "ih", ih, 1) # 0 THEN S
  ELSE [ S EXCEPT !.peers = Append(@, [ ih |-> ih,
                                        peers |-> << [ peer |-> peer, time |-> S.now ] >> ]) ]

psPutPeer(S, ih, peer) ==
  LET S1 == IF indexOfKey(S.peers, "ih", ih, 1) = 0
            THEN [ S EXCEPT !.peers = Append(@, [ ih |-> ih, peers |-> <<>> ]) ]
            ELSE S
      n == indexOfKey(S1.peers, "ih", ih, 1)
      m == indexOfKey(S1.peers[n].peers, "peer", peer, 1)
  IN  IF m = 0
      THEN [ S1 EXCEPT !.peers[n].peers = Append(@, [ peer |-> peer, time |-> S.now ]) ]
      ELSE [ S1 EXCEPT !.peers[n].peers[m].time = S.now ]

\* the for loop of ps.update over the peers of one infohash
RECURSIVE psExpire(_, _, _, _)
psExpire(S, list, n, kept) ==
  IF n > Len(list) THEN [ S |-> S, kept |-> kept ]
  ELSE IF S.now - list[n].time >= psTimeout
       THEN psExpire(emit(S, "dropPeer", unmakeLoc(list[n].peer)), list, n + 1, kept)
       ELSE psExpire(S, list, n + 1, Append(kept, list[n]))

RECURSIVE psUpdateAll(_, _, _, _, _)
psUpdateAll(S, old, n, kept, numPeers) ==
  IF n > Len(old)
  THEN emit([ S EXCEPT !.peers = kept ], "peers",
            [ numPeers |-> numPeers, numInfohashes |-> Len(kept) ])
  ELSE LET r == psExpire(S, old[n].peers, 1, <<>>)
       IN  psUpdateAll(r.S, old, n + 1,
                       IF r.kept = <<>> THEN kept
                       ELSE Append(kept, [ old[n] EXCEPT !.peers = r.kept ]),
                       numPeers + Len(r.kept))

psUpdate(S) == psUpdateAll(S, S.peers, 1, <<>>, 0)

\* the empty object {}
emptyObject == [ k \in {} |-> 0 ]

\* a getData that finds nothing
dsGetNothing(S, target) == emptyObject

\* ds.getData: a copy of the datum without its time, {} if there is none
dsGetData(S, target) ==
  LET n == indexOfKey(S.data, "target", target, 1)
  IN  IF n = 0 THEN emptyObject ELSE remove(S.data[n].datum, "time")

dsPutData(S, target, datum) ==
  LET n == indexOfKey(S.data, "target", target, 1)
      d == [ time |-> S.now ] @@ datum
  IN  IF n = 0
      THEN [ S EXCEPT !.data = Append(@, [ target |-> target, datum |-> d ]) ]
      ELSE [ S EXCEPT !.data[n].datum = d ]

RECURSIVE dsUpdateAll(_, _, _, _)
dsUpdateAll(S, old, n, kept) ==
  IF n > Len(old) THEN emit([ S EXCEPT !.data = kept ], "data", Len(kept))
  ELSE IF S.now - old[n].datum.time >= dsTimeout
       THEN dsUpdateAll(emit(S, "dropData", old[n].target), old, n + 1, kept)
       ELSE dsUpdateAll(S, old, n + 1, Append(kept, old[n]))

\* an update that only reports
dsUpdateKeep(S) == emit(S, "data", Len(S.data))

dsUpdate(S) == dsUpdateAll(S, S.data, 1, <<>>)

(***************************************************************************)
(* iq: incoming queries.                                                   *)
(***************************************************************************)
\* ut.random(idLen): the n-th secret drawn
Secret(n) == << 115, n >> \o zeros(idLen - 2)

\* a rotation that forgets the secret it replaces
newSecretForget(S) ==
  [ S EXCEPT !.secret = Secret(S.numSecrets), !.numSecrets = @ + 1 ]

newSecret(S) ==
  [ S EXCEPT !.oldSecret = S.secret, !.secret = Secret(S.numSecrets),
             !.numSecrets = @ + 1 ]

\* a sendErr that also empties the data store
sendErrWipe(S, code, msg, tag, rinfo) ==
  [ send(S, [ t |-> tag, y |-> "e", e |-> << code, msg >> ],
         makeLoc(rinfo.address, rinfo.port)) EXCEPT !.data = <<>> ]

sendErr(S, code, msg, tag, rinfo) ==
  send(S, [ t |-> tag, y |-> "e", e |-> << code, msg >> ],
       makeLoc(rinfo.address, rinfo.port))

RECURSIVE concatNodes(_, _)
concatNodes(contacts, n) ==
  IF n > Len(contacts) THEN <<>>
  ELSE contacts[n].id \o contacts[n].loc \o concatNodes(contacts, n + 1)

\* Buffer.concat(list, totalLength): cut or zero-filled to totalLength
contactsToNodes(contacts) ==
  LET all == concatNodes(contacts, 1)
      total == Len(contacts) * nodeLen
  IN  IF Len(all) >= total THEN slice(all, 0, total)
      ELSE all \o zeros(total - Len(all))

getNodes(S, target) ==
  contactsToNodes(slice(closestContacts(createTempTable(S.table, target)),
                        0, numClosest))

throw(S) == [ S EXCEPT !.crashed = TRUE ]

\* iq.query(mess, rinfo)
iqQuery(S, mess, rinfo) ==
  IF ~ Has(mess, "t") THEN S
  ELSE IF ~ Has(mess, "q") \/ ~ Has(mess, "a")
  THEN sendErr(S, 203, "Protocol error", mess.t, rinfo)
  ELSE
    LET t == mess.t
        q == mess.q
        a == mess.a
        S0 == emit(S, "incoming", [ q |-> q, rinfo |-> rinfo ])
        protocolError == sendErr(S0, 203, "Protocol error", t, rinfo)
        hasTarget == Has(a, "target") \/ Has(a, "info_hash")
        target == IF Has(a, "target") THEN a.target ELSE a.info_hash
        loc == makeLoc(rinfo.address, rinfo.port)
        S1 == [ S0 EXCEPT !.table = utAddContact(@, a.id, loc, S.now) ]
        contact == [ id |-> a.id, loc |-> loc ]
        node == contactsToNodes(<< contact >>)
        token == sha1(node \o S.secret)
        oldToken == sha1(node \o S.oldSecret)
        validToken == Has(a, "token") /\ (a.token = token \/ a.token = oldToken)
        r0 == [ id |-> MyId ]
        reply(St, r) == send(St, [ t |-> t, y |-> "r", r |-> r ], contact.loc)
    IN  IF ~ Has(a, "id") \/ Len(a.id) # idLen THEN protocolError
        ELSE IF hasTarget /\ Len(target) # idLen THEN protocolError
        ELSE IF ~ hasTarget /\ q # "put" THEN protocolError
        ELSE
          CASE q = "ping" -> reply(S1, r0)
            [] q = "find_node" ->
                 IF ~ Has(a, "target") THEN throw(S1)
                 ELSE reply(S1, [ nodes |-> getNodes(S1, a.target) ] @@ r0)
            [] q = "get_peers" ->
                 \* ps.getPeers is undefined when the infohash has no entry
                 IF indexOfKey(S1.peers, "ih", target, 1) # 0
                     THEN reply(S1, [ token |-> token,
                                      values |-> psGetPeers(S1, target) ] @@ r0)
                     ELSE reply(S1, [ token |-> token,
                                      nodes |-> getNodes(S1, target) ] @@ r0)
            [] q = "announce_peer" ->
                 IF ~ validToken THEN sendErr(S1, 203, "Protocol error", t, rinfo)
                 ELSE IF ~ byteMatch(target, MyId, iqMatch) THEN S1
                 ELSE IF ~ Has(a, "implied_port") \/ a.implied_port # 1
                 THEN IF ~ Has(a, "port") \/ a.port = 0
                      THEN sendErr(S1, 203, "Missing port", t, rinfo)
                      ELSE reply(psPutPeer(S1, target, makeLoc(rinfo.address, a.port)),
                                 r0)
                 ELSE reply(psPutPeer(S1, target, contact.loc), r0)
            [] q = "get" ->
                 IF ~ Has(a, "target") THEN throw(S1)
                 ELSE
                   LET datum == dsGetData(S1, a.target)
                       newer == IF Has(a, "seq") /\ a.seq # 0
                                THEN Has(datum, "seq") /\ datum.seq > a.seq
                                ELSE TRUE
                       r1 == [ token |-> token ] @@ r0
                       r2 == IF newer THEN datum @@ r1 ELSE r1
                   IN  reply(S1, [ nodes |-> getNodes(S1, a.target) ] @@ r2)
            [] q = "put" ->
                 IF ~ validToken THEN sendErr(S1, 203, "Invalid token", t, rinfo)
                 ELSE IF ~ Has(a, "v") THEN sendErr(S1, 203, "Missing v", t, rinfo)
                 ELSE IF Len(encodeBuff(a.v)) > maxV
                 THEN sendErr(S1, 205, "Message (v) too big", t, rinfo)
                 ELSE IF Has(a, "k") /\ Has(a, "seq") /\ a.seq # 0 /\ Has(a, "sig")
                 THEN
                   IF Len(a.k) # keyLen \/ Len(a.sig) # sigLen
                   THEN sendErr(S1, 203, "Protocol error", t, rinfo)
                   ELSE IF ~ verify(a.sig, packSeqSalt(a.seq, a.v,
                                      IF Has(a, "salt") THEN a.salt ELSE Null), a.k)
                   THEN sendErr(S1, 206, "Invalid signature", t, rinfo)
                   ELSE IF Has(a, "salt") /\ Len(a.salt) > saltLen
                   THEN sendErr(S1, 207, "Salt too big", t, rinfo)
                   ELSE
                     LET mtarget == sha1(IF Has(a, "salt") THEN a.k \o a.salt ELSE a.k)
                         oldDatum == dsGetData(S1, mtarget)
                     IN  IF Has(a, "cas")
                            /\ (~ Has(oldDatum, "seq") \/ a.cas # oldDatum.seq)
                         THEN sendErr(S1, 301, "CAS mismatch", t, rinfo)
                         ELSE IF Has(oldDatum, "seq") /\ oldDatum.seq > a.seq
                         THEN sendErr(S1, 302, "Sequence number too small", t, rinfo)
                         ELSE IF Has(oldDatum, "seq") /\ oldDatum.seq = a.seq
                                 /\ encodeBuff(oldDatum.v) # encodeBuff(a.v)
                         THEN sendErr(S1, 302, "Sequence number too small", t, rinfo)
                         ELSE IF ~ byteMatch(mtarget, MyId, iqMatch) THEN S1
                         ELSE reply(dsPutData(S1, mtarget,
                                      [ v |-> a.v, k |-> a.k, seq |-> a.seq,
                                        sig |-> a.sig ]), r0)
                 ELSE
                   LET itarget == sha1(encodeBuff(a.v))
                   IN  IF ~ byteMatch(itarget, MyId, iqMatch) THEN S1
                       ELSE reply(dsPutData(S1, itarget, [ v |-> a.v ]), r0)
            [] OTHER -> S1

(***************************************************************************)
(* sr.recv and the five-minute interval of go.init.                        *)
(***************************************************************************)
\* a recv that lets one more datagram through after the spam event
recvLax(S, mess, rinfo) ==
  LET key == makeLoc(rinfo.address, rinfo.port)
      count == IF key \in DOMAIN S.spam THEN S.spam[key] + 1 ELSE 1
      S1 == [ S EXCEPT !.spam = (key :> count) @@ @ ]
      S2 == IF count = spamLimit THEN emit(S1, "spam", key) ELSE S1
  IN  IF count > spamLimit + 1 THEN S2
      ELSE IF mess.y = "q" THEN iqQuery(S2, mess, rinfo)
      ELSE resp(S2, mess.y, mess, rinfo)

\* sr.recv(mess, rinfo): mess is the decoded datagram, Null if ben.decode
\* threw
recv(S, mess, rinfo) ==
  IF rinfo.family # "IPv4" THEN S
  ELSE
    LET key == makeLoc(rinfo.address, rinfo.port)
        count == IF key \in DOMAIN S.spam THEN S.spam[key] + 1 ELSE 1
        S1 == [ S EXCEPT !.spam = (key :> count) @@ @ ]
        S2 == IF count = spamLimit THEN emit(S1, "spam", key) ELSE S1
    IN  IF count > spamLimit THEN S2
        ELSE IF mess = Null \/ ~ Has(mess, "y") THEN S2
        ELSE IF mess.y = "q" THEN iqQuery(S2, mess, rinfo)
        ELSE IF mess.y = "r" \/ mess.y = "e" THEN resp(S2, mess.y, mess, rinfo)
        ELSE S2

RECURSIVE emitAll(_, _, _, _)
emitAll(S, key, vals, n) ==
  IF n > Len(vals) THEN S
  ELSE emitAll(emit(S, key, unmakeLoc(vals[n])), key, vals, n + 1)

RECURSIVE pingAll(_, _, _)
pingAll(S, locs, n) ==
  IF n > Len(locs) THEN S
  ELSE pingAll(issue(S, "ping", emptyObject, locs[n],
                     [ k |-> "ping", op |-> 0, loc |-> locs[n] ]),
               locs, n + 1)

\* my.refreshTable
myRefreshTable(S) ==
  LET r == refreshTable(S.table)
      S1 == emitAll([ S EXCEPT !.table = r.table ], "dropContact", r.drops, 1)
  IN  myUpdate(pingAll(S1, r.pings, 1))

\* the interval of go.init: spamReset, refreshTable, newSecret and the
\* updates of the stores
housekeeping(S) ==
  dsUpdate(psUpdate(newSecret(myRefreshTable([ S EXCEPT !.spam = emptyObject ]))))

(***************************************************************************)
(* decode (bencode decoder).  The decoder is followed call by call: i is   *)
(* its position in buff, stack holds the calls of dictionary ("d") and     *)
(* list ("l") that have not returned, mode tells whether next is about to  *)
(* be called or the loop of the innermost dictionary or list is about to   *)
(* test its condition.  The values built are left out; result is "value"   *)
(* when decode returns what next returned and "null" when it returns null  *)
(* from its catch.                                                         *)
(***************************************************************************)
\* the depth at which the calls of next exhaust the call stack
MaxDepth == 3

\* buff[i], -1 for undefined
at(buff, i) == IF i >= 0 /\ i < Len(buff) THEN buff[i + 1] ELSE -1

\* find(c): the index of the first c at or after i, -1 when find throws
findCode(buff, i, c) ==
  LET found == { k \in (IF i < 0 THEN 0 ELSE i)..(Len(buff) - 1) : buff[k + 1] = c }
  IN  IF found = {} THEN -1 ELSE CHOOSE k \in found : \A j \in found : k <= j

isDigit(c) == c >= 48 /\ c <= 57

RECURSIVE parseDigits(_, _, _)
parseDigits(text, n, acc) ==
  IF n > Len(text) \/ ~ isDigit(text[n]) THEN acc
  ELSE parseDigits(text, n + 1, 10 * acc + (text[n] - 48))

\* parseInt of a text of digits, minus signs and letters: [nan, int]
parseInt(text) ==
  LET neg == text # <<>> /\ text[1] = 45
      body == IF neg THEN Tail(text) ELSE text
  IN  IF body = <<>> \/ ~ isDigit(body[1]) THEN [ nan |-> TRUE, int |-> 0 ]
      ELSE [ nan |-> FALSE,
             int |-> IF neg THEN 0 - parseDigits(body, 1, 0) ELSE parseDigits(body, 1, 0) ]

\* toInteger(start, end): parseInt(buff.toString('ascii', start, end))
toInteger(buff, start, end) ==
  parseInt(SubSeq(buff, (IF start < 0 THEN 0 ELSE start) + 1, end))

NoDecode == [ buff |-> <<>>, i |-> 0, stack |-> <<>>, mode |-> "idle", result |-> "none" ]

\* catch (err) { return null }
caught(d) == [ d EXCEPT !.mode = "done", !.result = "null" ]

\* next, dictionary or list has returned at position i
afterElement(d, i) ==
  IF d.stack = <<>> THEN [ d EXCEPT !.i = i, !.mode = "done", !.result = "value" ]
  ELSE [ d EXCEPT !.i = i, !.mode = "loop" ]

\* string(): the position after the string, or that string throws
string(buff, i) ==
  LET colon == findCode(buff, i, 58)
      n == toInteger(buff, i, colon)
  IN  IF colon = -1 \/ n.nan THEN [ threw |-> TRUE, i |-> i ]
      ELSE [ threw |-> FALSE, i |-> n.int + colon + 1 ]

\* integer()
integer(buff, i) ==
  LET e == findCode(buff, i, 101)
  IN  IF e = -1 \/ toInteger(buff, i, e).nan THEN [ threw |-> TRUE, i |-> i ]
      ELSE [ threw |-> FALSE, i |-> e + 1 ]

\* next()
next(d) ==
  LET c == at(d.buff, d.i)
  IN  IF c = 100 \/ c = 108
      THEN IF Len(d.stack) >= MaxDepth THEN caught(d)
           ELSE [ d EXCEPT !.i = d.i + 1, !.mode = "loop",
                           !.stack = Append(@, IF c = 100 THEN "d" ELSE "l") ]
      ELSE LET r == IF c = 105 THEN integer(d.buff, d.i + 1) ELSE string(d.buff, d.i)
           IN  IF r.threw THEN caught(d) ELSE afterElement(d, r.i)

\* the loop of dictionary() or list(): one test of its condition and, when
\* it holds, the key read by dictionary
loop(d) ==
  IF at(d.buff, d.i) # 101 /\ d.i < Len(d.buff)
  THEN IF d.stack[Len(d.stack)] = "l" THEN [ d EXCEPT !.mode = "next" ]
       ELSE LET key == string(d.buff, d.i)
            IN  IF key.threw THEN caught(d)
                ELSE [ d EXCEPT !.i = key.i, !.mode = "next" ]
  ELSE IF d.i = Len(d.buff) THEN caught(d)
  ELSE afterElement([ d EXCEPT !.stack = SubSeq(@, 1, Len(@) - 1) ], d.i + 1)

\* decode(buff) up to the first call of next
decode(buff) == [ buff |-> buff, i |-> 0, stack |-> <<>>, mode |-> "next", result |-> "none" ]

(***************************************************************************)
(* State.                                                                  *)
(***************************************************************************)
VARIABLES
  table,           \* my.table, the routing table of the node (a Table)
  now,             \* Date.now(), in seconds
  last,            \* history: the last call made, with its argument
  listening,       \* the socket is bound and my.populate was called
  udpError,        \* the bind of the socket failed
  crashed,         \* a handler threw
  spam,            \* sr.spam
  tCount,          \* oq.tCount
  pendingQueries,  \* oq.pendingQueries
  waitingQueries,  \* oq.waitingQueries
  boot,            \* the closure of my.populate
  acts,            \* the closures of the oq.act calls
  secret,          \* iq.secret
  oldSecret,       \* iq.oldSecret
  numSecrets,      \* the number of secrets drawn so far
  peers,           \* ps.peers
  data,            \* ds.data
  sweeps,          \* the number of times the five-minute interval has fired
  received,        \* the number of datagrams received
  out,             \* what the last handler sent, emitted and called back
  qlog,            \* history: one record per query handed to oq.query
  dec              \* the run of decode on a byte string

tableVars == << table, now, last >>
nodeVars ==
  << listening, udpError, crashed, spam, tCount, pendingQueries, waitingQueries, boot, acts,
     secret, oldSecret, numSecrets, peers, data, sweeps, received, out, qlog, dec >>
vars ==
  << table, now, last, listening, udpError, crashed, spam, tCount, pendingQueries,
     waitingQueries, boot, acts, secret, oldSecret, numSecrets, peers, data,
     sweeps, received, out, qlog, dec >>

NoContact == [ id |-> <<>>, loc |-> <<>>, time |-> NoTime ]

\* the node state a handler starts from
Node ==
  [ table |-> table, now |-> now, crashed |-> crashed, spam |-> spam,
    tCount |-> tCount, pendingQueries |-> pendingQueries,
    waitingQueries |-> waitingQueries, boot |-> boot, acts |-> acts,
    secret |-> secret, oldSecret |-> oldSecret, numSecrets |-> numSecrets,
    peers |-> peers, data |-> data, out |-> <<>>, qlog |-> qlog ]

\* the query object is in the pending table or in the waiting queue
inPending(pending, qid) == \E t \in DOMAIN pending : pending[t].qid = qid
inWaiting(waiting, qid) == \E n \in 1..Len(waiting) : waiting[n].qid = qid

\* the history forgets a query object once its continuation has been called
\* exactly once and neither table refers to it
settled(S, qid) ==
  /\ S.qlog[qid].invoked = 1
  /\ ~ inPending(S.pendingQueries, qid)
  /\ ~ inWaiting(S.waitingQueries, qid)

\* the node state a handler ends in
Becomes(S) ==
  /\ table' = S.table
  /\ crashed' = S.crashed
  /\ spam' = S.spam
  /\ tCount' = S.tCount
  /\ pendingQueries' = S.pendingQueries
  /\ waitingQueries' = S.waitingQueries
  /\ boot' = S.boot
  /\ acts' = S.acts
  /\ secret' = S.secret
  /\ oldSecret' = S.oldSecret
  /\ numSecrets' = S.numSecrets
  /\ peers' = S.peers
  /\ data' = S.data
  /\ out' = S.out
  /\ qlog' = [ qid \in { q \in DOMAIN S.qlog : ~ settled(S, q) } |-> S.qlog[qid] ]
  /\ dec' = dec

NodeInit ==
  /\ table = Table(MyId, FALSE, 0)
  /\ now = 1
  /\ last = [ op |-> "new", arg |-> NoContact ]
  /\ listening = FALSE
  /\ udpError = FALSE
  /\ crashed = FALSE
  /\ spam = emptyObject
  /\ tCount = 0
  /\ pendingQueries = emptyObject
  /\ waitingQueries = <<>>
  /\ boot = [ visited |-> <<>>, pending |-> 0 ]
  /\ acts = <<>>
  /\ secret = Secret(1)
  /\ oldSecret = Secret(0)
  /\ numSecrets = 2
  /\ peers = <<>>
  /\ data = <<>>
  /\ sweeps = 0
  /\ received = 0
  \* go.init reports the id and the public key of the node
  /\ out = << [ type |-> "update", key |-> "id", val |-> MyId ],
              [ type |-> "update", key |-> "publicKey", val |-> PublicKey ] >>
  /\ qlog = emptyObject
  /\ dec = NoDecode

(***************************************************************************)
(* The routing table on its own: addContact and refreshTable called in any *)
(* order on a table that is not temporary, while the clock advances.       *)
(***************************************************************************)
TableInit == NodeInit

TAddContact ==
  \E id \in TableIds, loc \in { Loc(1) } :
    LET contact == [ id |-> id, loc |-> loc, time |-> NoTime ]
    IN  /\ table' = addContact(table, contact, now)
        /\ last' = [ op |-> "addContact", arg |-> contact ]
        /\ UNCHANGED now
        /\ UNCHANGED nodeVars

TRefreshTable ==
  LET r == refreshTable(table)
  IN  /\ table' = r.table
      /\ last' = [ op |-> "refreshTable", arg |-> NoContact ]
      /\ UNCHANGED now
      /\ UNCHANGED nodeVars

TClock ==
  /\ now < MaxNow
  /\ now' = now + 1
  /\ UNCHANGED << table, last >>
  /\ UNCHANGED nodeVars

TableNext == TAddContact \/ TRefreshTable \/ TClock

SpecTable == TableInit /\ [][TableNext]_vars

(***************************************************************************)
(* A table and the temporary tables made from it: contacts whose ids       *)
(* differ in their second byte only are added, createTempTable replaces    *)
(* the table by a temporary table under another id, refreshTable is called *)
(* on the table that is not temporary.                                     *)
(***************************************************************************)
ClosestIds ==
  { Id(128, 0), Id(128, 1), Id(128, 3), Id(160, 1), Id(0, 0) }

TempIds == { Id(128, 2), Id(0, 0) }

CAddContact ==
  \E id \in ClosestIds :
    LET contact == [ id |-> id, loc |-> Loc(1), time |-> NoTime ]
    IN  /\ table' = addContact(table, contact, now)
        /\ last' = [ op |-> "addContact", arg |-> contact ]
        /\ UNCHANGED now
        /\ UNCHANGED nodeVars

CTempTable ==
  /\ ~ table.isTemp
  /\ \E id \in TempIds : table' = createTempTable(table, id)
  /\ last' = [ op |-> "createTempTable", arg |-> NoContact ]
  /\ UNCHANGED now
  /\ UNCHANGED nodeVars

CRefreshTable == ~ table.isTemp /\ TRefreshTable

ClosestNext == CAddContact \/ CTempTable \/ CRefreshTable \/ TClock

SpecClosest == TableInit /\ [][ClosestNext]_vars

(***************************************************************************)
(* The node and its outgoing queries: the socket starts listening, the     *)
(* user calls the public interface, the 100 ms and five-minute intervals   *)
(* fire, and datagrams with y = r or y = e arrive from the network.        *)
(***************************************************************************)
\* the source of the datagrams: 10.0.0.1 port 6881
Rinfo == [ family |-> "IPv4", address |-> << 10, 0, 0, 1 >>, port |-> 6881 ]

\* my.bootLocs, an option of go.init
BootLocs == { <<>>, << Loc(1), Loc(2), Loc(3) >> }

\* the target of the user's calls
Target == Id(0, 0)

\* an id that shares its first oqMatch bytes with my.id
NearId == [ MyId EXCEPT ![oqMatch + 1] = 1 ]

repeat(buff, n) ==
  [ i \in 1..(n * Len(buff)) |-> buff[((i - 1) % Len(buff)) + 1] ] \o <<>>

\* the transaction ids of the datagrams: those of the pending queries and
\* one more
Ts == { intToBuff2(t) : t \in DOMAIN pendingQueries \cup { tCount } }

\* the r dictionaries of the datagrams: a node that knows another node, a
\* node that has a token and peers, the answer of a router under an id close
\* to my.id, and an answer without id
Rs ==
  { [ id |-> Id(192, 0), nodes |-> Id(144, 0) \o Loc(4) ],
    [ id |-> Id(192, 0), token |-> << 7 >>, values |-> << Loc(9) >> ],
    [ id |-> NearId, nodes |-> repeat(Id(176, 0) \o Loc(5), 16) ],
    [ nodes |-> <<>> ] }

\* the datagrams with y = r or y = e, decoded
Responses ==
  LET e == << 201, "A Generic Error Occurred" >>
  IN  { [ t |-> t, y |-> "r", r |-> r ] : t \in Ts, r \in Rs }
      \cup { [ t |-> t, y |-> "e", e |-> e ] : t \in Ts }
      \cup { [ t |-> t, y |-> "e", e |-> e, r |-> [ id |-> Id(192, 0) ] ] : t \in Ts }
      \cup { [ t |-> t, y |-> "e", r |-> [ id |-> Id(192, 0) ] ] : t \in Ts }

Listening ==
  /\ ~ listening /\ ~ udpError /\ ~ crashed
  /\ \E bootLocs \in BootLocs :
       /\ Becomes(populate(emit(Node, "listening", 6881), 0, bootLocs))
       /\ last' = [ op |-> "listening", arg |-> NoContact ]
  /\ listening' = TRUE
  /\ UNCHANGED << now, udpError, sweeps, received >>

Call ==
  /\ ~ crashed
  /\ Len(acts) < MaxOps
  /\ \E kind \in { "getPeers", "announcePeer", "getData", "putData" } :
       /\ Becomes(CASE kind = "getPeers" -> getPeers(Node, Target)
                    [] kind = "announcePeer" -> announcePeer(Node, Target, 6881)
                    [] kind = "getData" -> getData(Node, Target, Null)
                    [] OTHER -> putData(Node, << 118 >>, Null, FALSE, Null))
       /\ last' = [ op |-> kind, arg |-> NoContact ]
  /\ UNCHANGED << now, listening, udpError, sweeps, received >>

Check ==
  /\ ~ crashed
  /\ Becomes(check(Node))
  /\ last' = [ op |-> "check", arg |-> NoContact ]
  /\ UNCHANGED << now, listening, udpError, sweeps, received >>

ReceiveResponse ==
  /\ listening /\ ~ crashed
  /\ received < MaxDatagrams
  /\ \E mess \in Responses : Becomes(recv(Node, mess, Rinfo))
  /\ received' = received + 1
  /\ last' = [ op |-> "recv", arg |-> NoContact ]
  /\ UNCHANGED << now, listening, udpError, sweeps >>

\* the five-minute interval fires: the clock has advanced since the node
\* started or the interval last fired
Housekeeping ==
  /\ ~ crashed
  /\ sweeps < MaxSweeps /\ now < MaxNow
  /\ Becomes(housekeeping([ Node EXCEPT !.now = now + 1 ]))
  /\ now' = now + 1
  /\ sweeps' = sweeps + 1
  /\ last' = [ op |-> "housekeeping", arg |-> NoContact ]
  /\ UNCHANGED << listening, udpError, received >>

\* the bind of the socket fails: sr.init reports the port
UdpError ==
  /\ ~ listening /\ ~ udpError /\ ~ crashed
  /\ Becomes(emit(Node, "udp", 6881))
  /\ udpError' = TRUE
  /\ last' = [ op |-> "error", arg |-> NoContact ]
  /\ UNCHANGED << now, listening, sweeps, received >>

Init == NodeInit

Next == Listening \/ Call \/ Check \/ ReceiveResponse \/ Housekeeping

Spec == Init /\ [][Next]_vars

(***************************************************************************)
(* The node answering queries: remote nodes ping it and ask it for the     *)
(* nodes closest to a target, each from its own address.                   *)
(***************************************************************************)
\* the remote nodes: id and last byte of the address
Senders ==
  { [ id |-> Id(192, 0), n |-> 11, port |-> 6881 ],
    [ id |-> Id(128, 0), n |-> 12, port |-> 6881 ],
    [ id |-> Id(144, 0), n |-> 13, port |-> 6881 ] }

rinfoOf(s) == [ family |-> "IPv4", address |-> << 10, 0, 0, s.n >>, port |-> s.port ]

findNode(s) ==
  [ t |-> << 0, 1 >>, y |-> "q", q |-> "find_node",
    a |-> [ id |-> s.id, target |-> Target ] ]

\* the decoded datagram of the query q with arguments a of a sender
queryOf(s, q, a) ==
  [ t |-> << 0, 1 >>, y |-> "q", q |-> q, a |-> [ id |-> s.id ] @@ a ]

\* the datagrams with y = q of a sender, decoded
Queries(s) == { queryOf(s, "ping", emptyObject), findNode(s) }

ReceiveQuery ==
  /\ listening /\ ~ crashed
  /\ received < MaxQueries
  /\ \E s \in Senders : \E mess \in Queries(s) : Becomes(recv(Node, mess, rinfoOf(s)))
  /\ received' = received + 1
  /\ last' = [ op |-> "recv", arg |-> NoContact ]
  /\ UNCHANGED << now, listening, udpError, sweeps >>

IqNext == Listening \/ ReceiveQuery \/ Housekeeping

SpecIq == Init /\ [][IqNext]_vars

(***************************************************************************)
(* The node from its start: the bind of the socket succeeds or fails, and  *)
(* the 100 ms and five-minute intervals of go.init fire in both cases.     *)
(***************************************************************************)
StartNext == Listening \/ UdpError \/ ReceiveQuery \/ Check \/ Housekeeping

SpecStart == Init /\ [][StartNext]_vars

(***************************************************************************)
(* The node and its stores: get_peers, announce_peer and put queries       *)
(* arrive, with the token the node hands out under its secret or under its *)
(* old secret, while the five-minute interval fires.                       *)
(***************************************************************************)
MaxStores == 3

\* the token of iq.query for the sender under a secret
tokenOf(s, sec) ==
  sha1(contactsToNodes(<< [ id |-> s.id, loc |-> makeLoc(rinfoOf(s).address, s.port) ] >>)
       \o sec)

\* an infohash that shares its first iqMatch bytes with my.id (Target does
\* not)
NearIh == [ MyId EXCEPT ![iqMatch + 1] = 9 ]

\* values whose immutable targets do (119) and do not (118) share their
\* first iqMatch bytes with my.id
Values == { << 118 >>, << 119 >> }

\* the arguments of a put of mutable data signed by the owner of the key k
mutableArgs(k, seq, v, tok) ==
  [ token |-> tok, v |-> v, k |-> k, seq |-> seq,
    sig |-> sign(packSeqSalt(seq, v, Null), k) ]

StoreSenders == { s \in Senders : s.n <= 12 }

StoreQueries(s) ==
  { queryOf(s, "get_peers", [ info_hash |-> NearIh ]) }
  \cup { queryOf(s, "announce_peer",
                 [ info_hash |-> ih, token |-> tok, implied_port |-> 1 ]) :
           ih \in { NearIh, Target },
           tok \in { tokenOf(s, secret), tokenOf(s, oldSecret) } }
  \cup { queryOf(s, "announce_peer",
                 [ info_hash |-> NearIh, token |-> tokenOf(s, secret), port |-> 7001 ]) }
  \cup { queryOf(s, "put", [ token |-> tokenOf(s, secret), v |-> v ]) : v \in Values }
  \cup { queryOf(s, "put", mutableArgs(PublicKey, seq, v, tokenOf(s, secret))) :
           seq \in 1..2, v \in Values }

ReceiveStore ==
  /\ listening /\ ~ crashed
  /\ received < MaxStores
  /\ \E s \in StoreSenders :
       \E mess \in StoreQueries(s) : Becomes(recv(Node, mess, rinfoOf(s)))
  /\ received' = received + 1
  /\ last' = [ op |-> "recv", arg |-> NoContact ]
  /\ UNCHANGED << now, listening, udpError, sweeps >>

StoreNext == Listening \/ ReceiveStore \/ Housekeeping

SpecStore == Init /\ [][StoreNext]_vars

(***************************************************************************)
(* The stores over time: the same queries arrive while the clock advances  *)
(* and the five-minute interval fires at any time of the clock, several    *)
(* times between two steps of the clock too (ps.timeout is six intervals   *)
(* long, ds.timeout twenty-four).                                          *)
(***************************************************************************)
\* the clock of the stores runs from 1 to MaxClock
MaxClock == 3
\* times the five-minute interval fires in a run of the stores
MaxUpdates == 2

Tick ==
  /\ now < MaxClock
  /\ now' = now + 1
  /\ last' = [ op |-> "tick", arg |-> NoContact ]
  /\ UNCHANGED table
  /\ UNCHANGED nodeVars

Interval ==
  /\ ~ crashed
  /\ sweeps < MaxUpdates
  /\ Becomes(housekeeping(Node))
  /\ sweeps' = sweeps + 1
  /\ last' = [ op |-> "interval", arg |-> NoContact ]
  /\ UNCHANGED << now, listening, udpError, received >>

\* queries that store: a peer, an immutable and a mutable datum
SweepQueries(s) ==
  { queryOf(s, "announce_peer",
            [ info_hash |-> NearIh, token |-> tokenOf(s, secret), implied_port |-> 1 ]),
    queryOf(s, "put", [ token |-> tokenOf(s, secret), v |-> << 119 >> ]),
    queryOf(s, "put", mutableArgs(PublicKey, 1, << 119 >>, tokenOf(s, secret))) }

ReceiveSweep ==
  /\ listening /\ ~ crashed
  /\ received < MaxStores
  /\ \E s \in StoreSenders :
       \E mess \in SweepQueries(s) : Becomes(recv(Node, mess, rinfoOf(s)))
  /\ received' = received + 1
  /\ last' = [ op |-> "recv", arg |-> NoContact ]
  /\ UNCHANGED << now, listening, udpError, sweeps >>

SweepNext == Listening \/ ReceiveSweep \/ Tick \/ Interval

SpecSweep == Init /\ [][SweepNext]_vars

(***************************************************************************)
(* The responses to the get queries of one getData call on a mutable       *)
(* target arrive in any order.  The closure of the call holds the          *)
(* responses with a value in arrival order (data, src/mdht.js) and the     *)
(* value, seq and numFound of the later revision (part_004).               *)
(***************************************************************************)
\* responses to the get queries of a call
MaxGets == 3

\* the target of the call: the data of the key PublicKey, without salt
GetTarget == makeMutableTarget(PublicKey, Null)

\* a response with the value v under the key k, signed by its owner
signedBy(k, seq, v) ==
  [ id |-> Id(192, 0), token |-> << 7 >>, v |-> v, seq |-> seq, k |-> k,
    sig |-> sign(packSeqSalt(seq, v, Null), k) ]

\* the r dictionaries: valid data of two sequence numbers and values, a
\* value with the signature of another value, a value of another key, an
\* immutable value, and a response without value
GetRs ==
  { signedBy(PublicKey, seq, v) : seq \in 1..2, v \in Values }
  \cup { [ signedBy(PublicKey, 2, << 118 >>) EXCEPT !.v = << 119 >> ],
         signedBy(<< 108 >> \o zeros(keyLen - 1), 2, << 119 >>),
         [ id |-> Id(192, 0), token |-> << 7 >>, v |-> << 119 >> ],
         [ id |-> Id(192, 0), token |-> << 7 >> ] }

GetData ==
  /\ acts = <<>>
  /\ acts' = << [ data |-> <<>>, value |-> Null, seq |-> 0, numFound |-> 0 ] >>
  /\ last' = [ op |-> "getData", arg |-> NoContact ]
  /\ UNCHANGED << table, now, listening, udpError, crashed, spam, tCount,
                  pendingQueries, waitingQueries, boot, secret, oldSecret,
                  numSecrets, peers, data,
                  sweeps, received, out, qlog, dec >>

GetResponse ==
  /\ acts # <<>>
  /\ received < MaxGets
  /\ \E res \in GetRs :
       acts' = << [ actGet(acts[1], res, GetTarget, Null) EXCEPT
                     !.data = IF Has(res, "v") THEN Append(@, res) ELSE @ ] >>
  /\ received' = received + 1
  /\ last' = [ op |-> "recv", arg |-> NoContact ]
  /\ UNCHANGED << table, now, listening, udpError, crashed, spam, tCount,
                  pendingQueries, waitingQueries, boot, secret, oldSecret,
                  numSecrets, peers, data,
                  sweeps, out, qlog, dec >>

GetNext == GetData \/ GetResponse

SpecGet == Init /\ [][GetNext]_vars

(***************************************************************************)
(* The node after its bootstrap, with two contacts in my.table: the user   *)
(* calls the public interface, the 100 ms interval fires, and responses    *)
(* with one of two tokens arrive for the queries that are pending.         *)
(***************************************************************************)
\* responses received in a run
MaxReplies == 4

ActInit ==
  /\ table = addContact(addContact(Table(MyId, FALSE, 0),
                                   [ id |-> Id(128, 0), loc |-> Loc(1), time |-> NoTime ], 1),
                        [ id |-> Id(192, 0), loc |-> Loc(2), time |-> NoTime ], 1)
  /\ now = 1
  /\ last = [ op |-> "ready", arg |-> NoContact ]
  /\ listening = TRUE
  /\ udpError = FALSE
  /\ crashed = FALSE
  /\ spam = emptyObject
  /\ tCount = 0
  /\ pendingQueries = emptyObject
  /\ waitingQueries = <<>>
  /\ boot = [ visited |-> <<>>, pending |-> 0 ]
  /\ acts = <<>>
  /\ secret = Secret(1)
  /\ oldSecret = Secret(0)
  /\ numSecrets = 2
  /\ peers = <<>>
  /\ data = <<>>
  /\ sweeps = 0
  /\ received = 0
  /\ out = <<>>
  /\ qlog = emptyObject
  /\ dec = NoDecode

\* the two contacts answer from their locations, with one of two tokens
\* and a peer
ActRs ==
  { [ rinfo |-> [ family |-> "IPv4", address |-> << 10, 0, 0, n >>, port |-> 6881 ],
      r |-> [ id |-> Id(64 + 64 * n, 0), token |-> tok, values |-> << Loc(9) >> ] ] :
      n \in 1..2, tok \in { << 7 >>, << 8 >> } }

ReceiveReply ==
  /\ ~ crashed
  /\ received < MaxReplies
  /\ \E t \in Ts : \E a \in ActRs :
       Becomes(recv(Node, [ t |-> t, y |-> "r", r |-> a.r ], a.rinfo))
  /\ received' = received + 1
  /\ last' = [ op |-> "recv", arg |-> NoContact ]
  /\ UNCHANGED << now, listening, udpError, sweeps >>

ActNext == Call \/ Check \/ ReceiveReply

SpecAct == ActInit /\ [][ActNext]_vars

(***************************************************************************)
(* The populate call on my.table: the socket starts listening with one of  *)
(* several seed lists, the 100 ms interval fires, and the seeds answer     *)
(* with nodes of the tip of my.table.                                      *)
(***************************************************************************)
\* responses received in a run
MaxFound == 3

\* a location whose six bytes are the last two bytes of Loc(1) followed by
\* the first four of Loc(2): 26.225.10.0 port 2
Straddle == SubSeq(Loc(1) \o Loc(2), 5, 10)

\* my.bootLocs, an option of go.init
PopSeeds ==
  { <<>>, << Loc(1) >>, << Loc(1), Loc(1) >>, << Loc(1), Loc(2) >>,
    << Loc(1), Loc(2), Straddle >> }

\* the answers to find_node: a node that is new, two nodes of which one is a
\* seed, and a node at the straddling location
PopRs ==
  { [ id |-> Id(192, 0), nodes |-> Id(144, 0) \o Loc(3) ],
    [ id |-> Id(128, 0), nodes |-> (Id(144, 0) \o Loc(1)) \o (Id(176, 0) \o Loc(2)) ],
    [ id |-> Id(192, 0), nodes |-> Id(144, 0) \o Straddle ] }

PopRinfos ==
  { [ family |-> "IPv4", address |-> << 10, 0, 0, n >>, port |-> 6881 ] : n \in 1..3 }

PopListening ==
  /\ ~ listening /\ ~ udpError /\ ~ crashed
  /\ \E bootLocs \in PopSeeds :
       /\ Becomes(populate(emit(Node, "listening", 6881), 0, bootLocs))
       /\ last' = [ op |-> "listening", arg |-> NoContact ]
  /\ listening' = TRUE
  /\ UNCHANGED << now, udpError, sweeps, received >>

ReceiveFound ==
  /\ listening /\ ~ crashed
  /\ received < MaxFound
  /\ \E t \in Ts : \E r \in PopRs : \E rinfo \in PopRinfos :
       Becomes(recv(Node, [ t |-> t, y |-> "r", r |-> r ], rinfo))
  /\ received' = received + 1
  /\ last' = [ op |-> "recv", arg |-> NoContact ]
  /\ UNCHANGED << now, listening, udpError, sweeps >>

PopNext == PopListening \/ Check \/ ReceiveFound

SpecPop == Init /\ [][PopNext]_vars

(***************************************************************************)
(* A table and a temporary table made from it, as oq.act makes one:        *)
(* contacts are added to my.table and my.table is refreshed until the      *)
(* temporary table is made; then contacts are added to the temporary       *)
(* table, objects made for the call and objects that my.table holds.       *)
(* acts[1].table is the temporary table.                                   *)
(***************************************************************************)
SourceIds == { Id(0, 0), Id(192, 0), Id(128, 0), Id(144, 0) }

SAddContact ==
  /\ acts = <<>>
  /\ \E id \in SourceIds :
       LET contact == [ id |-> id, loc |-> Loc(1), time |-> NoTime ]
       IN  /\ table' = addContact(table, contact, now)
           /\ last' = [ op |-> "addContact", arg |-> contact ]
  /\ UNCHANGED now
  /\ UNCHANGED nodeVars

SRefreshTable == acts = <<>> /\ TRefreshTable

SClock == acts = <<>> /\ TClock

STempTable ==
  /\ acts = <<>>
  /\ \E id \in TempIds :
       LET p == sharedTempTable(table, id)
       IN  /\ table' = p.source
           /\ acts' = << [ table |-> p.temp ] >>
  /\ last' = [ op |-> "createTempTable", arg |-> NoContact ]
  /\ UNCHANGED << now, listening, udpError, crashed, spam, tCount, pendingQueries,
                  waitingQueries, boot, secret, oldSecret, numSecrets, peers,
                  data, sweeps, received, out, qlog, dec >>

STempAdd ==
  /\ acts # <<>>
  /\ \E c \in { [ contact |-> [ id |-> id, loc |-> Loc(2), time |-> NoTime ],
                  shared |-> FALSE ] : id \in { Id(64, 0), Id(128, 2) } }
              \cup { [ contact |-> allContacts(table)[n], shared |-> TRUE ] :
                       n \in 1..Len(allContacts(table)) } :
       LET p == tempAdd([ source |-> table, temp |-> acts[1].table ],
                        c.contact, c.shared, now)
       IN  /\ table' = p.source
           /\ acts' = << [ table |-> p.temp ] >>
           /\ last' = [ op |-> "tempAdd", arg |-> c.contact ]
  /\ UNCHANGED << now, listening, udpError, crashed, spam, tCount, pendingQueries,
                  waitingQueries, boot, secret, oldSecret, numSecrets, peers,
                  data, sweeps, received, out, qlog, dec >>

TempNext == SAddContact \/ SRefreshTable \/ SClock \/ STempTable \/ STempAdd

SpecTemp == TableInit /\ [][TempNext]_vars

(***************************************************************************)
(* decode on its own: it is called on a byte string and runs call by call  *)
(* until it returns.                                                       *)
(***************************************************************************)
\* the length of the byte strings decode is called on
MaxLen == 3

\* d, l, i, e, the colon, the minus sign and the digits 1 and 3
Codes == { 100, 108, 105, 101, 58, 45, 49, 51 }

RECURSIVE StringsTo(_)
StringsTo(n) ==
  IF n = 0 THEN { <<>> }
  ELSE StringsTo(n - 1)
         \cup { Append(s, c) : s \in { t \in StringsTo(n - 1) : Len(t) = n - 1 }, c \in Codes }

\* every byte string of at most MaxLen codes, and: li1ee, d1:li1eee, 3:l
\* (a length larger than what is left), l-3:e and l-4:e (negative lengths)
DecodeInputs ==
  StringsTo(MaxLen)
    \cup { << 108, 105, 49, 101, 101 >>,
           << 100, 49, 58, 108, 105, 49, 101, 101, 101 >>,
           << 51, 58, 108 >>,
           << 108, 45, 51, 58, 101 >>,
           << 108, 45, 52, 58, 101 >> }

Decode ==
  /\ dec.mode = "idle"
  /\ \E buff \in DecodeInputs : dec' = decode(buff)
  /\ last' = [ op |-> "decode", arg |-> NoContact ]
  /\ UNCHANGED << table, now, listening, udpError, crashed, spam, tCount,
                  pendingQueries, waitingQueries, boot, acts, secret, oldSecret,
                  numSecrets, peers, data, sweeps, received, out, qlog >>

DecodeStep ==
  /\ dec.mode \in { "next", "loop" }
  /\ dec' = IF dec.mode = "next" THEN next(dec) ELSE loop(dec)
  /\ last' = [ op |-> dec.mode, arg |-> NoContact ]
  /\ UNCHANGED << table, now, listening, udpError, crashed, spam, tCount,
                  pendingQueries, waitingQueries, boot, acts, secret, oldSecret,
                  numSecrets, peers, data, sweeps, received, out, qlog >>

DecodeNext == Decode \/ DecodeStep

\* decode runs to its end once called: nothing else runs in between
SpecDecode == Init /\ [][DecodeNext]_vars /\ WF_vars(DecodeStep)

(***************************************************************************)
(* A table that has grown deep: four contacts that differ from the table   *)
(* id at bit 2 were added first, then two that differ at bit 1 and three   *)
(* that differ at bit 3.  Contacts are added again, the table is           *)
(* refreshed, the clock advances.                                          *)
(***************************************************************************)
DeepIds ==
  << Id(128, 0), Id(144, 0), Id(136, 0), Id(152, 0), Id(192, 0), Id(224, 0),
     Id(176, 0), Id(184, 0), Id(188, 0) >>

RECURSIVE addEach(_, _, _, _)
addEach(t, ids, n, time) ==
  IF n > Len(ids) THEN t
  ELSE addEach(addContact(t, [ id |-> ids[n], loc |-> Loc(1), time |-> NoTime ], time),
               ids, n + 1, time)

DeepInit ==
  /\ table = addEach(Table(MyId, FALSE, 0), DeepIds, 1, 1)
  /\ now = 1
  /\ last = [ op |-> "addContact",
              arg |-> [ id |-> DeepIds[Len(DeepIds)], loc |-> Loc(1), time |-> NoTime ] ]
  /\ listening = FALSE
  /\ udpError = FALSE
  /\ crashed = FALSE
  /\ spam = emptyObject
  /\ tCount = 0
  /\ pendingQueries = emptyObject
  /\ waitingQueries = <<>>
  /\ boot = [ visited |-> <<>>, pending |-> 0 ]
  /\ acts = <<>>
  /\ secret = Secret(1)
  /\ oldSecret = Secret(0)
  /\ numSecrets = 2
  /\ peers = <<>>
  /\ data = <<>>
  /\ sweeps = 0
  /\ received = 0
  /\ out = <<>>
  /\ qlog = emptyObject
  /\ dec = NoDecode

\* the contacts that differ from the table id at bit 1 or 2 are added again
DAddContact ==
  \E n \in 1..6 :
    LET contact == [ id |-> DeepIds[n], loc |-> Loc(1), time |-> NoTime ]
    IN  /\ table' = addContact(table, contact, now)
        /\ last' = [ op |-> "addContact", arg |-> contact ]
        /\ UNCHANGED now
        /\ UNCHANGED nodeVars

DeepNext == DAddContact \/ TRefreshTable \/ TClock

SpecDeep == DeepInit /\ [][DeepNext]_vars

(***************************************************************************)
(* The node under load: the socket starts listening, the seeds answer, the *)
(* user calls pi.getPeers, from outside or from the done of a call before, *)
(* and the 100 ms interval keeps firing.                                   *)
(***************************************************************************)
\* calls of the public interface made from outside a callback
MaxCalls == 2

\* query objects alive at a time
MaxAlive == 6

\* the node at 10.0.0.n answers under the id 64 * n, with a token and a peer
answerOf(loc) ==
  [ id |-> Id(64 * loc[4], 0), token |-> << 7 >>, values |-> << Loc(9) >> ]

\* the node a pending query was sent to answers it
ReceiveAnswer ==
  /\ listening /\ ~ crashed
  /\ received < MaxDatagrams
  /\ \E t \in DOMAIN pendingQueries :
       LET loc == pendingQueries[t].done.loc
           rinfo == [ family |-> "IPv4" ] @@ unmakeLoc(loc)
       IN  Becomes(recv(Node, [ t |-> intToBuff2(t), y |-> "r", r |-> answerOf(loc) ],
                        rinfo))
  /\ received' = received + 1
  /\ last' = [ op |-> "recv", arg |-> NoContact ]
  /\ UNCHANGED << now, listening, udpError, sweeps >>

Crawl ==
  /\ listening /\ ~ crashed
  /\ Len(acts) < MaxCalls
  /\ \E kind \in { "getPeers", "crawl" } :
       /\ Becomes(IF kind = "crawl" THEN crawl(Node, Target) ELSE getPeers(Node, Target))
       /\ last' = [ op |-> kind, arg |-> NoContact ]
  /\ UNCHANGED << now, listening, udpError, sweeps, received >>

CrawlNext == Listening \/ ReceiveAnswer \/ Crawl \/ Check

\* the socket is bound, and setInterval(oq.check, oq.checkInterval) is never
\* cleared: the interval fires again and again, which implies WF_vars(Check)
SpecCrawl ==
  Init /\ [][CrawlNext]_vars /\ WF_vars(Listening) /\ []<><<Check>>_vars

(***************************************************************************)
(* The puts of data: put queries with and without a salt, signed over the  *)
(* salt they carry or over another one, with values up to and beyond maxV. *)
(***************************************************************************)
MaxPuts == 3

\* values whose immutable targets share their first iqMatch bytes with
\* my.id: their encodings have 3, maxV and maxV + 1 bytes
PutValues == { << 119 >>, << 1, 2, 3, 4, 5, 6 >>, << 1, 2, 3, 4, 5, 6, 8 >> }

\* the salts of the puts: one whose mutable target shares its first iqMatch
\* bytes with my.id, and the empty one
PutSalts == { << 115 >>, <<>> }

\* the arguments of a put with k, seq and sig, the signature made over the
\* salt signedSalt
saltedArgs(seq, v, salt, signedSalt, tok) ==
  [ token |-> tok, v |-> v, k |-> PublicKey, seq |-> seq, salt |-> salt,
    sig |-> sign(packSeqSalt(seq, v, signedSalt), PublicKey) ]

PutQueries(s) ==
  { queryOf(s, "put", [ token |-> tokenOf(s, secret), v |-> v ]) : v \in PutValues }
  \cup { queryOf(s, "put", mutableArgs(PublicKey, seq, v, tokenOf(s, secret))) :
           seq \in 0..2, v \in PutValues }
  \cup { queryOf(s, "put", saltedArgs(seq, v, salt, signedSalt, tokenOf(s, secret))) :
           seq \in 0..2, v \in PutValues, salt \in PutSalts, signedSalt \in PutSalts }

ReceivePut ==
  /\ listening /\ ~ crashed
  /\ received < MaxPuts
  /\ \E s \in StoreSenders :
       \E mess \in PutQueries(s) : Becomes(recv(Node, mess, rinfoOf(s)))
  /\ received' = received + 1
  /\ last' = [ op |-> "recv", arg |-> NoContact ]
  /\ UNCHANGED << now, listening, udpError, sweeps >>

PutNext == Listening \/ ReceivePut \/ Housekeeping

SpecPut == Init /\ [][PutNext]_vars

(***************************************************************************)
(* Claims about the routing table.                                         *)
(***************************************************************************)
tipOf(t) == Len(t.tree) - 1

storedAt(t, id) ==
  LET f == findContact(t, id)
      b == bucket(t.tree, f.y, f.z)
  IN  f.i < Len(b) /\ b[f.i + 1].id = id

\* C7: after any sequence of addContact and refreshTable calls every E1
\* bucket other than the tip's is empty, every contact in E0 at position y
\* differs from the table id at bit y, and every contact in the tip's E1
\* matches the table id at the tip's bit.
C7_TreeShape ==
  /\ \A y \in 0..(tipOf(table) - 1) : bucket(table.tree, y, 1) = <<>>
  /\ \A y \in 0..tipOf(table) :
       \A n \in 1..Len(bucket(table.tree, y, 0)) :
         getBit(bucket(table.tree, y, 0)[n].id, y) # getBit(table.id, y)
  /\ \A n \in 1..Len(bucket(table.tree, tipOf(table), 1)) :
       getBit(bucket(table.tree, tipOf(table), 1)[n].id, tipOf(table))
         = getBit(table.id, tipOf(table))

\* a table that has split, with contacts in an E0 bucket and in the tip's E1,
\* just after a refresh
C7_Witness ==
  /\ last.op = "refreshTable"
  /\ tipOf(table) >= 1
  /\ bucket(table.tree, 0, 0) # <<>>
  /\ bucket(table.tree, tipOf(table), 1) # <<>>

\* C8: after any sequence of addContact calls, splits included, every bucket
\* holds at most maxContacts contacts.
C8_BucketCap ==
  \A y \in 0..tipOf(table) : \A z \in 0..1 :
    Len(bucket(table.tree, y, z)) <= table.maxContacts

\* the contact is new to its bucket, which is a full element 0 (far) bucket
farBucketFull(t, id) ==
  LET f == findContact(t, id)
      b == bucket(t.tree, f.y, f.z)
  IN  f.z = 0 /\ f.i = Len(b) /\ Len(b) >= t.maxContacts

\* the step is a call of addContact with the contact recorded in last
addStep ==
  /\ last'.op = "addContact"
  /\ table' = addContact(table, last'.arg, now)

\* C9 as claimed: addContact(c) on a table that is not temporary leaves the
\* table unchanged if c.id is the table id, and otherwise findContact(c.id)
\* then returns coordinates at which a contact with id c.id is stored.
C9_AddThenFindAlways ==
  [][ addStep =>
        IF last'.arg.id = table.id THEN table' = table
        ELSE storedAt(table', last'.arg.id) ]_vars

\* C9 amended: ... or c.id is new to a full element 0 bucket, and then the
\* contact is discarded and the table is unchanged; otherwise findContact(c.id)
\* returns coordinates at which the contact (c.id, c.loc) is stored.
C9_AddThenFind ==
  [][ addStep =>
        LET c == last'.arg
        IN  IF c.id = table.id \/ farBucketFull(table, c.id)
            THEN table' = table
            ELSE LET f == findContact(table', c.id)
                     b == bucket(table'.tree, f.y, f.z)
                 IN  /\ f.i < Len(b)
                     /\ b[f.i + 1] = [ c EXCEPT !.time = now ] ]_vars

\* a contact was added by a split and is found in the new tip node
C9_Witness ==
  /\ last.op = "addContact"
  /\ last.arg.id # table.id
  /\ tipOf(table) >= 1
  /\ findContact(table, last.arg.id).y = tipOf(table)
  /\ storedAt(table, last.arg.id)
  /\ table.numContacts = defaultMaxContacts + 1

(***************************************************************************)
(* The node under the assumption that the 100 ms interval keeps firing.    *)
(***************************************************************************)
SpecFair == Init /\ [][Next]_vars /\ WF_vars(Check)

(***************************************************************************)
(* Claims about outgoing queries.                                          *)
(***************************************************************************)
\* the handler called the continuation of the query object qid with res
calledWith(log, qid, res) ==
  \E n \in 1..Len(log) :
    log[n].type = "call" /\ log[n].qid = qid /\ log[n].res = res

noCall(log) == \A n \in 1..Len(log) : log[n].type # "call"

emitted(log, key) ==
  \E n \in 1..Len(log) : log[n].type = "update" /\ log[n].key = key

\* the table holds a contact with this id and this location
hasContact(t, id, loc) ==
  LET f == findContact(t, id)
      b == bucket(t.tree, f.y, f.z)
  IN  f.i < Len(b) /\ b[f.i + 1].id = id /\ b[f.i + 1].loc = loc

senderLoc == makeLoc(Rinfo.address, Rinfo.port)

\* C1: every call of getPeers, announcePeer, getData or putData, made in any
\* reachable state of the node, is followed by a call of its done, given
\* only that the 100 ms check interval keeps firing.
C1_DoneEventually ==
  \A op \in 1..MaxOps :
    (Len(acts) >= op) ~> (Len(acts) >= op /\ acts[op].doneCalls >= 1)

\* C2: the done of a call is called at most once, and whenever it is called
\* no find_node, pre or post query of the call is in the pending table or in
\* the waiting queue.
C2_DoneOnceWhenDrained ==
  \A op \in 1..Len(acts) :
    /\ acts[op].doneCalls <= 1
    /\ acts[op].doneClean
    /\ acts[op].doneCalls = 1 => ~ outstanding(Node, op)

\* a call that visited a node, got a token, sent a post query and called done
C2_Witness ==
  \E op \in 1..Len(acts) :
    /\ acts[op].doneCalls = 1
    /\ acts[op].numVisited >= 1
    /\ acts[op].post # ""
    /\ Has(acts[op].postArgs, "token")

\* C3: the continuation of every query handed to oq.query is called exactly
\* once: a query whose continuation has not been called is still in the
\* pending table or in the waiting queue (so that a response or a check tick
\* will call it), and no continuation is called twice.
C3_ExactlyOnce ==
  \A qid \in DOMAIN qlog :
    /\ qlog[qid].invoked <= 1
    /\ qlog[qid].invoked = 0 =>
         inPending(pendingQueries, qid) \/ inWaiting(waitingQueries, qid)

\* C4: the pending table never holds more than pendingMax entries; a query in
\* the waiting queue was not transmitted and has no entry in the pending
\* table; a query issued while the table was full stays in the waiting queue
\* until it is promoted.
C4_PendingCap ==
  /\ Cardinality(DOMAIN pendingQueries) <= pendingMax
  /\ \A n \in 1..Len(waitingQueries) :
       /\ qlog[waitingQueries[n].qid].sent = 0
       /\ ~ inPending(pendingQueries, waitingQueries[n].qid)
  /\ \A qid \in DOMAIN qlog :
       (qlog[qid].full /\ ~ qlog[qid].promoted) =>
         (inWaiting(waitingQueries, qid) /\ qlog[qid].sent = 0)
  /\ \A qid \in DOMAIN qlog : qlog[qid].sent <= 1

\* a query that was issued while the table was full has been promoted and
\* transmitted, and the table is full again
C4_Witness ==
  /\ Cardinality(DOMAIN pendingQueries) = pendingMax
  /\ \E qid \in DOMAIN qlog :
       /\ qlog[qid].full /\ qlog[qid].promoted /\ qlog[qid].sent = 1
       /\ inPending(pendingQueries, qid)

\* C5 as claimed: in every reachable state, a datagram with y = r and r.id
\* whose t is in the pending table removes the entry, makes (r.id, sender
\* address and port) a contact of my.table and calls the continuation with
\* r; one whose t is not in the pending table calls no continuation and
\* changes neither my.table nor the pending table nor the waiting queue.
C5_ResponseAddsContact ==
  \A mess \in Responses :
    (mess.y = "r" /\ Has(mess.r, "id")) =>
      \A S \in { recv(Node, mess, Rinfo) } :
      LET t == buff2ToInt(mess.t)
          log == S.out
          tbl == S.table
          pend == S.pendingQueries
          wait == S.waitingQueries
      IN  IF t \in DOMAIN pendingQueries
          THEN /\ ~ inPending(pend, pendingQueries[t].qid)
               /\ hasContact(tbl, mess.r.id, senderLoc)
               /\ calledWith(log, pendingQueries[t].qid, mess.r)
          ELSE /\ noCall(log)
               /\ tbl = table
               /\ pend = pendingQueries
               /\ wait = waitingQueries

\* fewer than spamLimit datagrams have come from the sender since the last
\* housekeeping interval, so that sr.recv passes the next one on
underSpamLimit ==
  (IF senderLoc \in DOMAIN spam THEN spam[senderLoc] ELSE 0) < spamLimit

\* C5 amended: in every reachable state, a datagram with y = r and r.id
\* that sr.recv passes on (its sender under the spam limit) and whose t is
\* in the pending table removes the entry, calls the continuation with r and
\* offers the responder to my.table: if r.id shares its first oqMatch bytes
\* with my.id, or is new to a full element 0 bucket, the table is unchanged;
\* otherwise r.id is a contact of my.table, at the sender's address and port
\* or, when the query answered is a find_node of the populate call on
\* my.table, at the location the query was sent to.  One whose t is not in
\* the pending table calls no continuation and changes neither my.table nor
\* the pending table nor the waiting queue.
C5_ResponseOffersContact ==
  \A mess \in Responses :
    (mess.y = "r" /\ Has(mess.r, "id") /\ underSpamLimit) =>
      \A S \in { recv(Node, mess, Rinfo) } :
      LET t == buff2ToInt(mess.t)
          log == S.out
          tbl == S.table
          pend == S.pendingQueries
          wait == S.waitingQueries
      IN  IF t \in DOMAIN pendingQueries
          THEN LET w == pendingQueries[t]
               IN  /\ ~ inPending(pend, w.qid)
                   /\ calledWith(log, w.qid, mess.r)
                   /\ IF \/ byteMatch(mess.r.id, MyId, oqMatch)
                         \/ farBucketFull(table, mess.r.id)
                      THEN tbl = table
                      ELSE \/ hasContact(tbl, mess.r.id, senderLoc)
                           \/ /\ w.done.k = "find" /\ w.done.op = 0
                              /\ hasContact(tbl, mess.r.id, w.done.loc)
          ELSE /\ noCall(log)
               /\ tbl = table
               /\ pend = pendingQueries
               /\ wait = waitingQueries

\* a response has just made its sender a contact of my.table and its r was
\* handed to a continuation
C5_Witness ==
  /\ last.op = "recv"
  /\ hasContact(table, Id(192, 0), senderLoc)
  /\ \E n \in 1..Len(out) :
       out[n].type = "call" /\ out[n].res # Null /\ Has(out[n].res, "id")

\* C6: in every reachable state, a datagram with y = e and e = [code,
\* message], without r, whose t is in the pending table removes the entry at
\* once, calls the continuation with null, emits an error event and leaves
\* my.table as it was.
C6_ErrorCompletesQuery ==
  \A mess \in Responses :
    (/\ mess.y = "e" /\ Has(mess, "e") /\ ~ Has(mess, "r")
     /\ buff2ToInt(mess.t) \in DOMAIN pendingQueries) =>
      \A S \in { recv(Node, mess, Rinfo) } :
      LET w == pendingQueries[buff2ToInt(mess.t)]
          log == S.out
          tbl == S.table
          pend == S.pendingQueries
      IN  /\ ~ inPending(pend, w.qid)
          /\ calledWith(log, w.qid, Null)
          /\ emitted(log, "error")
          /\ tbl = table

\* a is strictly closer to target than b in XOR distance
closer(a, b, target) ==
  \E i \in 1..idLen :
    /\ xor(a[i], target[i]) < xor(b[i], target[i])
    /\ \A j \in 1..(i - 1) : xor(a[j], target[j]) = xor(b[j], target[j])

(***************************************************************************)
(* Claims about closestContacts.                                           *)
(***************************************************************************)
\* C11: in every table reachable by addContact, createTempTable and
\* refreshTable, closestContacts() returns at most maxContacts contacts.
C11_ClosestAtMostK == Len(closestContacts(table)) <= table.maxContacts

\* the XOR distance of a to id is at most that of b, compared byte by byte
\* from the most significant byte over all idLen bytes
notFarther(a, b, id) == a = b \/ closer(a, b, id)

\* C12: in every reachable table, every two consecutive contacts a, b of
\* closestContacts() satisfy (a.id XOR id) <= (b.id XOR id), the distance
\* read as a big-endian integer over all 20 bytes.
C12_ClosestSorted ==
  \A S \in { closestContacts(table) } :
    \A n \in 1..(Len(S) - 1) : notFarther(S[n].id, S[n + 1].id, table.id)

\* closestContacts has reordered contacts of the tip node whose distances
\* agree in the first byte
C12_Witness ==
  \E S \in { closestContacts(table) } :
    /\ S # table.tree[Len(table.tree)][1] \o table.tree[Len(table.tree)][2]
    /\ \E n \in 1..(Len(S) - 1) :
         /\ xor(S[n].id[1], table.id[1]) = xor(S[n + 1].id[1], table.id[1])
         /\ S[n].id # S[n + 1].id

(***************************************************************************)
(* Claims about incoming queries.                                          *)
(***************************************************************************)
\* the location of a sender, and: sr.recv passes on the next k datagrams of
\* the sender (its count stays within spamLimit)
locOf(s) == makeLoc(rinfoOf(s).address, rinfoOf(s).port)
passes(S, s, k) ==
  (IF locOf(s) \in DOMAIN S.spam THEN S.spam[locOf(s)] ELSE 0) + k <= spamLimit

\* the handler answered the query of s with the dictionary r
answered(log, s, r) ==
  \E n \in 1..Len(log) :
    /\ log[n].type = "send" /\ log[n].loc = locOf(s)
    /\ log[n].mess = [ t |-> << 0, 1 >>, y |-> "r", r |-> r ]

\* the handler answered the query of s with an error of this code
refused(log, s, code) ==
  \E n \in 1..Len(log) :
    /\ log[n].type = "send" /\ log[n].loc = locOf(s)
    /\ log[n].mess.y = "e" /\ log[n].mess.e[1] = code

\* C13: a ping whose arguments hold only a 20-byte id is answered with
\* y = r, the transaction id of the ping and r.id = my.id, and the sender
\* (a.id at its address and port) becomes a contact of my.table.
C13_PingAnswered ==
  \A s \in Senders :
    (listening /\ passes(Node, s, 1)) =>
      \A S \in { recv(Node, queryOf(s, "ping", emptyObject), rinfoOf(s)) } :
        /\ answered(S.out, s, [ id |-> MyId ])
        /\ hasContact(S.table, s.id, locOf(s))

\* the number of datagrams counted for the sender since the last reset
spamCount(S, s) == IF locOf(s) \in DOMAIN S.spam THEN S.spam[locOf(s)] ELSE 0

\* C15: between two resets of the housekeeping interval the spam event is
\* emitted at most once per source (only by the datagram that brings its
\* count to spamLimit, and the count never goes down before the reset);
\* every datagram of the source after the event is discarded: nothing is
\* sent or emitted and nothing but the count changes, so my.table, the
\* pending table, the peer store and the data store stay as they were;
\* after the reset the datagrams of the source are handled again.
C15_SpamDiscarded ==
  /\ [](\A s \in Senders : \A mess \in Queries(s) :
         \A S \in { recv(Node, mess, rinfoOf(s)) } :
           /\ emitted(S.out, "spam") => spamCount(Node, s) = spamLimit - 1
           /\ spamCount(Node, s) >= spamLimit =>
                /\ S = [ Node EXCEPT !.spam = (locOf(s) :> spamCount(Node, s) + 1) @@ @ ]
                /\ \A R \in { housekeeping([ Node EXCEPT !.now = now + 1 ]) } :
                     /\ R.spam = emptyObject
                     /\ emitted(recv([ R EXCEPT !.out = <<>> ], mess, rinfoOf(s)).out,
                                "incoming"))
  /\ [][\/ spam' = emptyObject
        \/ \A k \in DOMAIN spam : k \in DOMAIN spam' /\ spam'[k] >= spam[k]]_vars

\* a datagram of a source over the spam limit has just been discarded
C15_Witness ==
  /\ last.op = "recv"
  /\ out = <<>>
  /\ \E s \in Senders : spamCount(Node, s) > spamLimit

(***************************************************************************)
(* Claims about tokens and the stores.                                     *)
(***************************************************************************)
\* the node state after k more firings of the five-minute interval
RECURSIVE rotated(_, _)
rotated(S, k) ==
  IF k = 0 THEN S
  ELSE rotated(housekeeping([ S EXCEPT !.now = @ + 1, !.out = <<>> ]), k - 1)

\* the token in the answer the handler has just sent
mintedIn(log) ==
  log[CHOOSE n \in 1..Len(log) : log[n].type = "send"].mess.r.token

\* the sender that asks for a token, and senders that present it: the same
\* one and ones that differ from it in id, address or port
Asker == [ id |-> Id(192, 0), n |-> 11, port |-> 6881 ]
Presenters ==
  { [ id |-> i, n |-> n, port |-> p ] :
      i \in { Id(192, 0), Id(128, 0) }, n \in { 11, 12 }, p \in { 6881, 6882 } }

\* the queries that present a token: an announce_peer and a put whose
\* targets pass the iqMatch test
presenting(s, tok) ==
  { queryOf(s, "announce_peer", [ info_hash |-> NearIh, token |-> tok, port |-> 6881 ]),
    queryOf(s, "put", [ token |-> tok, v |-> << 119 >> ]) }

\* C14: in every reachable state, the token the node hands to a sender in
\* the answer to get_peers is accepted in an announce_peer or put of the
\* same sender (same id, address and port) after at most one rotation of
\* the secret, and refused with error 203 after two rotations or when a
\* sender of another id, address or port presents it.
C14_TokenWindow ==
  (listening /\ \A s \in Presenters : passes(Node, s, 2)) =>
    \A S1 \in { recv(Node, queryOf(Asker, "get_peers", [ info_hash |-> NearIh ]),
                     rinfoOf(Asker)) } :
      \A k \in 0..2 :
        \A S2 \in { rotated(S1, k) } :
          \A s \in Presenters :
            \A mess \in presenting(s, mintedIn(S1.out)) :
              \A S3 \in { recv([ S2 EXCEPT !.out = <<>> ], mess, rinfoOf(s)) } :
                IF k <= 1 /\ s = Asker
                THEN answered(S3.out, s, [ id |-> MyId ])
                ELSE refused(S3.out, s, 203) /\ S3.peers = S2.peers /\ S3.data = S2.data

\* after a rotation an announce_peer was accepted: its peer is in the
\* store, which the rotation had emptied
C14_Witness ==
  /\ last.op = "recv"
  /\ sweeps >= 1
  /\ peers # <<>>
  /\ \E s \in StoreSenders : answered(out, s, [ id |-> MyId ])

\* the puts of mutable data under the key of the node, signed, with and
\* without cas, that a sender makes with a token of the current secret
mutablePuts(s) ==
  { queryOf(s, "put", cas @@ mutableArgs(PublicKey, seq, v, tokenOf(s, secret))) :
      seq \in 1..3, v \in Values, cas \in { emptyObject, [ cas |-> 1 ], [ cas |-> 2 ] } }

\* the put passes the cas test against the datum stored
casFits(a, stored) == Has(a, "cas") => (Has(stored, "seq") /\ a.cas = stored.seq)

C17_CasOnlyAgainstStored ==
  \A s \in StoreSenders : \A mess \in mutablePuts(s) :
    (listening /\ passes(Node, s, 1)) =>
      \A S \in { recv(Node, mess, rinfoOf(s)) } :
        \A old \in { dsGetData(Node, makeMutableTarget(mess.a.k, Null)) } :
          /\ refused(S.out, s, 301) =>
               (Has(old, "seq") /\ Has(mess.a, "cas") /\ mess.a.cas # old.seq)
          /\ (Has(mess.a, "cas") /\ old = emptyObject) =>
               /\ answered(S.out, s, [ id |-> MyId ])
               /\ dsGetData(S, makeMutableTarget(mess.a.k, Null))
                    = [ v |-> mess.a.v, k |-> mess.a.k, seq |-> mess.a.seq,
                        sig |-> mess.a.sig ]

\* the puts with a valid token and v that carry some of k, seq and sig
partPuts(s) ==
  { queryOf(s, "put",
            [ f \in { "token", "v" } \cup fields |->
                mutableArgs(PublicKey, seq, << 119 >>, tokenOf(s, secret))[f] ]) :
      fields \in SUBSET { "k", "seq", "sig" }, seq \in 0..1 }

\* C18: a put with a valid token and v is stored as {v} under the target
\* of v only when it carries none of k, seq and sig; with some but not all
\* of them it is refused with error 203 and nothing is stored; with all
\* three, seq = 0 included, it is handled as mutable: stored with k, seq
\* and sig under the target of k when nothing is stored there.
C18_PutKinds ==
  \A s \in StoreSenders : \A mess \in partPuts(s) :
    (listening /\ passes(Node, s, 1)) =>
      \A S \in { recv(Node, mess, rinfoOf(s)) } :
        \A given \in { DOMAIN mess.a \cap { "k", "seq", "sig" } } :
          IF given = {}
          THEN /\ answered(S.out, s, [ id |-> MyId ])
               /\ dsGetData(S, makeImmutableTarget(mess.a.v)) = [ v |-> mess.a.v ]
          ELSE IF given # { "k", "seq", "sig" }
          THEN refused(S.out, s, 203) /\ S.data = data
          ELSE dsGetData(Node, makeMutableTarget(mess.a.k, Null)) = emptyObject =>
                 /\ answered(S.out, s, [ id |-> MyId ])
                 /\ dsGetData(S, makeMutableTarget(mess.a.k, Null))
                      = [ v |-> mess.a.v, k |-> mess.a.k, seq |-> mess.a.seq,
                          sig |-> mess.a.sig ]

\* a key whose mutable target does not share its first iqMatch bytes with
\* my.id
FarKey == << 108 >> \o zeros(keyLen - 1)

\* announce_peer and put queries that iq.query turns down, one or more for
\* each of its tests: the token, the size of v, the sizes of k and sig, the
\* signature, the size of the salt, cas, seq and the iqMatch test
turnedDown(s) ==
  LET tok == tokenOf(s, secret)
      bad == tokenOf(s, Secret(255))
      args(seq, v) == mutableArgs(PublicKey, seq, v, tok)
      salt == zeros(saltLen + 1)
  IN  { queryOf(s, "announce_peer", [ info_hash |-> NearIh, token |-> bad, port |-> 1 ]),
        queryOf(s, "announce_peer", [ info_hash |-> NearIh, port |-> 1 ]),
        queryOf(s, "announce_peer", [ info_hash |-> NearIh, token |-> tok ]),
        queryOf(s, "announce_peer", [ info_hash |-> Target, token |-> tok, port |-> 1 ]),
        queryOf(s, "put", [ token |-> bad, v |-> << 119 >> ]),
        queryOf(s, "put", [ token |-> tok ]),
        queryOf(s, "put", [ token |-> tok, v |-> [ i \in 1..maxV |-> 119 ] ]),
        queryOf(s, "put", [ token |-> tok, v |-> << 118 >> ]),
        queryOf(s, "put", [ k |-> << 107 >> ] @@ args(1, << 119 >>)),
        queryOf(s, "put", [ sig |-> << 1 >> ] @@ args(1, << 119 >>)),
        queryOf(s, "put", [ sig |-> zeros(sigLen) ] @@ args(1, << 119 >>)),
        queryOf(s, "put", [ salt |-> salt,
                            sig |-> sign(packSeqSalt(1, << 119 >>, salt), PublicKey) ]
                          @@ args(1, << 119 >>)),
        queryOf(s, "put", [ cas |-> 3 ] @@ args(3, << 119 >>)),
        queryOf(s, "put", args(1, << 118 >>)),
        queryOf(s, "put", mutableArgs(FarKey, 1, << 119 >>, tok)) }

\* C19: whenever iq.query turns an announce_peer or a put down - it sends
\* an error or no answer - the peer store and the data store are exactly
\* as they were before the query.
C19_RejectedKeepsStores ==
  \A s \in StoreSenders : \A mess \in turnedDown(s) :
    (listening /\ passes(Node, s, 1)) =>
      \A S \in { recv(Node, mess, rinfoOf(s)) } :
        ~ answered(S.out, s, [ id |-> MyId ]) => (S.peers = peers /\ S.data = data)

\* a query has just been turned down with an error while both stores hold
\* an entry
C19_Witness ==
  /\ last.op = "recv"
  /\ \E s \in StoreSenders : \E n \in 1..Len(out) :
       out[n].type = "send" /\ out[n].mess.y = "e"
  /\ peers # <<>> /\ data # <<>>

\* announce_peer and put queries, valid in all but their target, whose
\* target does not share its first iqMatch bytes with my.id
farQueries(s) ==
  { queryOf(s, "announce_peer",
            [ info_hash |-> Target, token |-> tokenOf(s, secret), implied_port |-> 1 ]),
    queryOf(s, "put", [ token |-> tokenOf(s, secret), v |-> << 118 >> ]),
    queryOf(s, "put", mutableArgs(FarKey, 1, << 119 >>, tokenOf(s, secret))),
    queryOf(s, "put", [ cas |-> 1 ] @@ mutableArgs(FarKey, 1, << 119 >>, tokenOf(s, secret))) }

\* C20: in every reachable state every key of the data store and every
\* infohash of the peer store shares its first iqMatch bytes with my.id,
\* and an announce_peer or put whose target does not stores nothing and
\* gets no reply.
C20_StoresNearOnly ==
  /\ \A n \in 1..Len(data) : byteMatch(data[n].target, MyId, iqMatch)
  /\ \A n \in 1..Len(peers) : byteMatch(peers[n].ih, MyId, iqMatch)
  /\ \A s \in StoreSenders : \A mess \in farQueries(s) :
       (listening /\ passes(Node, s, 1)) =>
         \A S \in { recv(Node, mess, rinfoOf(s)) } :
           /\ S.peers = peers /\ S.data = data
           /\ \A n \in 1..Len(S.out) : S.out[n].type # "send"

(***************************************************************************)
(* Claims about the peer store.                                            *)
(***************************************************************************)
\* the peers stored for the infohash, in the order of their first announce
storedFor(ps, ih) ==
  LET n == indexOfKey(ps, "ih", ih, 1)
  IN  IF n = 0 THEN <<>> ELSE [ m \in 1..Len(ps[n].peers) |-> ps[n].peers[m].peer ] \o <<>>

\* the r dictionaries of the answers of the handler to the sender
answersTo(log, s) ==
  { log[n].mess.r : n \in { m \in 1..Len(log) : /\ log[m].type = "send"
                                                /\ log[m].loc = locOf(s)
                                                /\ log[m].mess.y = "r" } }

\* C21: every answer to a get_peers query carries a token and exactly one
\* of values and nodes: values, which are then at least one and at most
\* peersLimit locations of locLen bytes, if and only if a peer is stored
\* for the infohash of the query, and nodes otherwise.
C21_ValuesOrNodes ==
  \A s \in StoreSenders : \A ih \in { NearIh, Target } :
    (listening /\ passes(Node, s, 1)) =>
      \A S \in { recv(Node, queryOf(s, "get_peers", [ info_hash |-> ih ]), rinfoOf(s)) } :
        /\ answersTo(S.out, s) # {}
        /\ \A r \in answersTo(S.out, s) :
             /\ Has(r, "token")
             /\ Has(r, "values") # Has(r, "nodes")
             /\ Has(r, "values") <=> storedFor(peers, ih) # <<>>
             /\ Has(r, "values") =>
                  /\ Len(r.values) \in 1..peersLimit
                  /\ \A m \in 1..Len(r.values) : Len(r.values[m]) = locLen

\* more than peersLimit peers are stored for an infohash
C21_Witness ==
  /\ listening
  /\ Len(storedFor(peers, NearIh)) > peersLimit
  /\ \E s \in StoreSenders : passes(Node, s, 1)

\* announce_peer queries that the node accepts: a token of the node, an
\* infohash near my.id, and a.port unless implied_port is 1
announces(s) ==
  { queryOf(s, "announce_peer", [ info_hash |-> NearIh, token |-> tok ] @@ p) :
      tok \in { tokenOf(s, secret), tokenOf(s, oldSecret) },
      p \in { [ implied_port |-> 1 ], [ implied_port |-> 1, port |-> 7001 ],
              [ port |-> 7001 ], [ implied_port |-> 0, port |-> 7002 ] } }

\* announce_peer queries with neither a.port nor implied_port = 1
portless(s) ==
  { queryOf(s, "announce_peer", [ info_hash |-> NearIh, token |-> tokenOf(s, secret) ] @@ p) :
      p \in { emptyObject, [ implied_port |-> 0 ], [ implied_port |-> 2 ] } }

\* the location an announce_peer query of the sender announces
announcedBy(s, a) ==
  IF Has(a, "implied_port") /\ a.implied_port = 1 THEN locOf(s)
  ELSE makeLoc(rinfoOf(s).address, a.port)

\* a get_peers for the infohash, asked in the state S by any sender under
\* the spam limit, is answered with values that hold the peer
getsBack(S, ih, peer) ==
  \A s \in StoreSenders :
    passes(S, s, 1) =>
      \A S2 \in { recv([ S EXCEPT !.out = <<>> ], queryOf(s, "get_peers", [ info_hash |-> ih ]),
                       rinfoOf(s)) } :
        /\ answersTo(S2.out, s) # {}
        /\ \A r \in answersTo(S2.out, s) :
             Has(r, "values") /\ \E m \in 1..Len(r.values) : r.values[m] = peer

\* an accepted announce_peer is answered and stores its location, and
\* every peer stored among the first limit peers of its infohash is
\* returned by get_peers; an announce_peer without port is refused with 203
\* and stores nothing
announceThenGet(limit) ==
  /\ \A s \in StoreSenders : \A mess \in announces(s) :
       (listening /\ passes(Node, s, 1)) =>
         \A S \in { recv(Node, mess, rinfoOf(s)) } :
           LET stored == storedFor(S.peers, NearIh)
           IN  /\ answered(S.out, s, [ id |-> MyId ])
               /\ \E m \in 1..Len(stored) :
                    /\ stored[m] = announcedBy(s, mess.a)
                    /\ m <= limit => getsBack(S, NearIh, stored[m])
  /\ \A n \in 1..Len(peers) : \A m \in 1..Len(peers[n].peers) :
       (listening /\ m <= limit) => getsBack(Node, peers[n].ih, peers[n].peers[m].peer)
  /\ \A s \in StoreSenders : \A mess \in portless(s) :
       (listening /\ passes(Node, s, 1)) =>
         \A S \in { recv(Node, mess, rinfoOf(s)) } :
           refused(S.out, s, 203) /\ S.peers = peers

\* C22 (as amended): an accepted announce_peer stores the sender's address
\* with the sender's port when implied_port = 1 and with a.port otherwise,
\* and until the peer is evicted every get_peers for the infohash returns
\* it in values provided it is among the first peersLimit peers stored for
\* the infohash; an announce_peer with neither a.port nor implied_port = 1
\* is answered with 203 and stores nothing.
C22_AnnouncedReturnedWithinLimit == announceThenGet(peersLimit)

\* C22 (as stated): every get_peers for the infohash answered before the
\* peer is evicted returns values with the announced location, however many
\* peers are stored for the infohash.
C22_AnnouncedReturned == announceThenGet(peersLimit + MaxStores + 1)

\* a peer announced with a.port is stored among the first peersLimit peers
\* of its infohash, next to a peer announced with implied_port = 1
C22_Witness ==
  /\ listening
  /\ \E s, s2 \in StoreSenders :
       LET stored == storedFor(peers, NearIh)
       IN  /\ passes(Node, s, 1)
           /\ \E m, k \in 1..Min(peersLimit, Len(stored)) :
                /\ stored[m] = makeLoc(rinfoOf(s).address, 7001)
                /\ stored[k] = locOf(s2)

(***************************************************************************)
(* Claims about the sweep of the stores.                                   *)
(***************************************************************************)
\* the values of the events of this key in a log, in order
eventsOf(log, key) ==
  LET es == SelectSeq(log, LAMBDA o : o.type = "update" /\ o.key = key)
  IN  [ n \in 1..Len(es) |-> es[n].val ] \o <<>>

\* positions << n, m >> of the peers of ps that are timeout old at time t
agedPeers(ps, t) ==
  { nm \in (1..Len(ps)) \X (1..(peersLimit + MaxStores + 1)) :
      /\ nm[2] <= Len(ps[nm[1]].peers)
      /\ t - ps[nm[1]].peers[nm[2]].time >= psTimeout }

\* ps.peers and ds.data without the entries that are timeout old at time t
youngPeers(ps, t) ==
  LET young(e) == [ e EXCEPT !.peers = SelectSeq(@, LAMBDA p : t - p.time < psTimeout) ]
  IN  SelectSeq([ n \in 1..Len(ps) |-> young(ps[n]) ] \o <<>>, LAMBDA e : e.peers # <<>>)
youngData(ds, t) == SelectSeq(ds, LAMBDA d : t - d.datum.time < dsTimeout)

\* the key under which a put query stores its datum
targetOf(a) ==
  IF Has(a, "k") THEN makeMutableTarget(a.k, Null) ELSE makeImmutableTarget(a.v)

\* the entry that the query of the sender writes is held by the stores
holds(S, s, mess) ==
  IF mess.q = "put"
  THEN indexOfKey(S.data, "target", targetOf(mess.a), 1) # 0
  ELSE \E m \in 1..Len(storedFor(S.peers, NearIh)) :
         storedFor(S.peers, NearIh)[m] = announcedBy(s, mess.a)

\* C23: the sweep of the five-minute interval leaves no peer that is
\* psTimeout old or older, no datum that is dsTimeout old or older and no
\* infohash without peers; it removes no younger entry and emits exactly
\* one dropPeer or dropData event per entry removed; and an announce_peer
\* or put of an entry, new or stored already, starts its age at 0: the
\* entry survives the sweeps of the next timeout - 1 units of time and is
\* removed by a sweep after timeout units.
C23_SweepEvictsOld ==
  /\ \A S \in { housekeeping(Node) } :
       /\ \A n \in 1..Len(S.peers) :
            /\ S.peers[n].peers # <<>>
            /\ \A m \in 1..Len(S.peers[n].peers) : now - S.peers[n].peers[m].time < psTimeout
       /\ \A n \in 1..Len(S.data) : now - S.data[n].datum.time < dsTimeout
       /\ S.peers = youngPeers(peers, now)
       /\ S.data = youngData(data, now)
       /\ Len(eventsOf(S.out, "dropPeer")) = Cardinality(agedPeers(peers, now))
       /\ \A nm \in agedPeers(peers, now) :
            \E e \in 1..Len(eventsOf(S.out, "dropPeer")) :
              eventsOf(S.out, "dropPeer")[e] = unmakeLoc(peers[nm[1]].peers[nm[2]].peer)
       /\ LET aged == SelectSeq(data, LAMBDA d : now - d.datum.time >= dsTimeout)
          IN  eventsOf(S.out, "dropData") = [ n \in 1..Len(aged) |-> aged[n].target ] \o <<>>
  /\ \A s \in StoreSenders :
       (listening /\ passes(Node, s, 1)) =>
         \A mess \in SweepQueries(s) : \A S \in { recv(Node, mess, rinfoOf(s)) } :
           /\ holds(S, s, mess)
           /\ \A d \in 0..dsTimeout :
                holds(dsUpdate(psUpdate([ S EXCEPT !.now = now + d, !.out = <<>> ])), s, mess)
                <=> d < (IF mess.q = "put" THEN dsTimeout ELSE psTimeout)

\* the interval has just fired and removed a peer and a datum, with an
\* event for each, and kept a younger peer
C23_Witness ==
  /\ last.op = "interval"
  /\ eventsOf(out, "dropPeer") # <<>>
  /\ eventsOf(out, "dropData") # <<>>
  /\ peers # <<>>

(***************************************************************************)
(* Claims about getData.                                                   *)
(***************************************************************************)
\* a response that carries valid mutable data of the target
validated(res) ==
  /\ Has(res, "v") /\ Has(res, "seq") /\ Has(res, "k") /\ Has(res, "sig")
  /\ res.seq # 0 /\ Len(res.k) = keyLen /\ Len(res.sig) = sigLen
  /\ Len(encodeBuff(res.v)) <= maxV
  /\ makeMutableTarget(res.k, Null) = GetTarget
  /\ verify(res.sig, packSeqSalt(res.seq, res.v, Null), res.k)

\* v and numFound are those of the validated responses among arrived: v is
\* the value of one with the greatest seq and numFound counts those that
\* carry this seq; v is Null or [v |-> value]
bestOf(arrived, v, numFound) ==
  LET ns == { n \in 1..Len(arrived) : validated(arrived[n]) }
      top == { n \in ns : \A m \in ns : arrived[m].seq <= arrived[n].seq }
  IN  /\ numFound = Cardinality(top)
      /\ IF ns = {} THEN v = Null
         ELSE v # Null /\ \E n \in top : arrived[n].v = v.v

\* what pi.getData of src/mdht.js hands to done for the responses arrived
doneOf(arrived) ==
  getDataDone(arrived, 1, GetTarget, Null, [ result |-> Null, seq |-> 0, numFound |-> 0 ])

unknownVerbs(s) ==
  { queryOf(s, "vote", a) : a \in { emptyObject, [ target |-> Target ] } }

\* C25: a query whose verb is none of ping, find_node, get_peers,
\* announce_peer, get and put is answered with error 204, with a target or
\* without one, and changes neither the peer store nor the data store.
C25_UnknownVerb204 ==
  \A s \in Senders : \A mess \in unknownVerbs(s) :
    (listening /\ passes(Node, s, 1)) =>
      \A S \in { recv(Node, mess, rinfoOf(s)) } :
        /\ refused(S.out, s, 204)
        /\ S.peers = peers /\ S.data = data

(***************************************************************************)
(* Claims about the start of the node.                                     *)
(***************************************************************************)
\* the log holds the event of this key at position n
eventAt(log, n, key) ==
  n <= Len(log) /\ log[n].type = "update" /\ log[n].key = key

\* a find_node query of the populate call on my.table is pending or waiting
bootOutstanding ==
  \/ \E t \in DOMAIN pendingQueries :
       pendingQueries[t].done.k = "find" /\ pendingQueries[t].done.op = 0
  \/ \E n \in 1..Len(waitingQueries) :
       waitingQueries[n].done.k = "find" /\ waitingQueries[n].done.op = 0

\* C26: the host sees id and publicKey first, then listening when the bind
\* succeeds, and then ready, followed at once by nodes and closest; ready
\* carries the number of locations visited by the populate call on
\* my.table and is not emitted while a find_node query of that call is
\* pending or waiting.
C26_StartupEvents ==
  /\ last.op = "new" => (Len(out) = 2 /\ eventAt(out, 1, "id") /\ eventAt(out, 2, "publicKey"))
  /\ last.op = "listening" => eventAt(out, 1, "listening")
  /\ \A n \in 1..Len(out) :
       eventAt(out, n, "ready") =>
         /\ listening
         /\ \A m \in 1..(n - 1) : ~ eventAt(out, m, "ready")
         /\ out[n].val = Len(boot.visited) \div locLen
         /\ ~ bootOutstanding
         /\ eventAt(out, n + 1, "nodes")
         /\ eventAt(out, n + 2, "closest")

\* C27: when the bind fails the host gets the event udpFail with the port,
\* and from then on nothing happens: no listening or ready event, no query
\* sent, and no tick of the check or housekeeping interval changes the
\* state of the node.
C27_BindFailureIsTerminal ==
  /\ [](last.op = "error" =>
          out = << [ type |-> "update", key |-> "udpFail", val |-> 6881 ] >>)
  /\ [][udpError =>
          /\ UNCHANGED << table, listening, spam, tCount, pendingQueries,
                          waitingQueries, boot, acts, secret, oldSecret, peers, data >>
          /\ \A n \in 1..Len(out') :
               /\ out'[n].type # "send"
               /\ ~ eventAt(out', n, "listening") /\ ~ eventAt(out', n, "ready")]_vars

(***************************************************************************)
(* Claims about the outgoing queries.                                      *)
(***************************************************************************)
\* the log holds at position n an announce_peer or put query sent
postSent(log, n) ==
  /\ log[n].type = "send" /\ log[n].mess.y = "q"
  /\ log[n].mess.q \in { "announce_peer", "put" }

reissued(t) ==
  /\ t \in DOMAIN pendingQueries'
  /\ pendingQueries'[t].qid # pendingQueries[t].qid

newIn(w, w2) == { n \in 1..Len(w2) : ~ inWaiting(w, w2[n].qid) }

\* C30: queries leave the waiting queue in the order in which they entered
\* it, and only during a check tick while the pending table has a free
\* slot; after each check tick the waiting queue is empty or the pending
\* table is full: in every step the new waiting queue is the old one
\* without its first k queries, followed by the queries that entered; k > 0
\* only in a check step, and the k queries are then in the pending table,
\* which holds at most pendingMax queries.
C30_WaitingIsFifo ==
  [][/\ \E k \in 0..Len(waitingQueries) :
          /\ Len(waitingQueries') >= Len(waitingQueries) - k
          /\ \A n \in 1..(Len(waitingQueries) - k) :
               waitingQueries'[n] = waitingQueries[n + k]
          /\ \A n \in (Len(waitingQueries) - k + 1)..Len(waitingQueries') :
               n \in newIn(waitingQueries, waitingQueries')
          /\ k > 0 =>
               /\ last'.op = "check"
               /\ \A n \in 1..k : inPending(pendingQueries', waitingQueries[n].qid)
               /\ Cardinality(DOMAIN pendingQueries') <= pendingMax
     /\ last'.op = "check" =>
          \/ waitingQueries' = <<>>
          \/ Cardinality(DOMAIN pendingQueries') >= pendingMax]_vars

\* a check tick has promoted the first waiting query and left another one
\* in the waiting queue
C30_Witness ==
  /\ last.op = "check"
  /\ waitingQueries # <<>>
  /\ Cardinality(DOMAIN pendingQueries) >= pendingMax
  /\ \E t \in DOMAIN pendingQueries :
       /\ pendingQueries[t].tick = pendingTick
       /\ qlog[pendingQueries[t].qid].promoted

(***************************************************************************)
(* Claims about populate.                                                  *)
(***************************************************************************)
\* the locations the populate call on my.table counts as visited
visitedLocs(c) == splitBuff(c.visited, locLen)

inSeq(seq, x) == \E n \in 1..Len(seq) : seq[n] = x

\* the find_node query objects of the populate call on my.table
findObjects(pending, waiting) ==
  { [ qid |-> pending[t].qid, loc |-> pending[t].done.loc ] :
      t \in { u \in DOMAIN pending :
                pending[u].done.k = "find" /\ pending[u].done.op = 0 } }
  \cup { [ qid |-> waiting[n].qid, loc |-> waiting[n].done.loc ] :
           n \in { m \in 1..Len(waiting) :
                     waiting[m].done.k = "find" /\ waiting[m].done.op = 0 } }

\* the locations of the find_node queries transmitted by the handler
findSent(log) ==
  LET ns == { n \in 1..Len(log) :
                log[n].type = "send" /\ log[n].mess.y = "q"
                /\ log[n].mess.q = "find_node" }
  IN  [ locs |-> { log[n].loc : n \in ns }, count |-> Cardinality(ns) ]

\* every location of the seed list is visited by populate
seedsVisited ==
  ~ listening =>
    \A locs \in PopSeeds :
      \A S \in { populate(Node, 0, locs) } :
        \A n \in 1..Len(locs) : inSeq(visitedLocs(S.boot), locs[n])

\* every location enqueued by the continuation of a find_node query (the
\* location of a node of the response that would be in the tip of my.table)
\* is visited at once
enqueuedVisited ==
  \A t \in DOMAIN pendingQueries :
    (pendingQueries[t].done.k = "find" /\ pendingQueries[t].done.op = 0) =>
      \A r \in PopRs : \A rinfo \in PopRinfos :
        \A S \in { recv(Node, [ t |-> intToBuff2(t), y |-> "r", r |-> r ], rinfo) } :
          ~ inPending(S.pendingQueries, pendingQueries[t].qid) =>
            LET enqueued == tipNodeLocs(S.table, splitBuff(r.nodes, nodeLen),
                                        Len(S.table.tree) - 1)
            IN  \A n \in 1..Len(enqueued) : inSeq(visitedLocs(S.boot), enqueued[n])

\* C31: populate sends find_node exactly once to every distinct location of
\* its seed list and to every distinct location it enqueues, never twice to
\* the same location; it calls its completion exactly once, only when none
\* of its find_node queries is outstanding, with the number of distinct
\* locations it sent to.
C31_PopulateVisitsOnce ==
  /\ [](/\ seedsVisited
        /\ enqueuedVisited
        /\ \A i, j \in 1..Len(visitedLocs(boot)) :
             visitedLocs(boot)[i] = visitedLocs(boot)[j] => i = j)
  /\ [][LET old == findObjects(pendingQueries, waitingQueries)
            new == findObjects(pendingQueries', waitingQueries') \ old
            added == SubSeq(visitedLocs(boot'), Len(visitedLocs(boot)) + 1,
                            Len(visitedLocs(boot')))
            nowPending == { o \in findObjects(pendingQueries', <<>>) :
                              o \notin findObjects(pendingQueries, <<>>) }
        IN  /\ Len(visitedLocs(boot')) >= Len(visitedLocs(boot))
            /\ SubSeq(visitedLocs(boot'), 1, Len(visitedLocs(boot))) = visitedLocs(boot)
            /\ Cardinality(new) = Len(added)
            /\ { o.loc : o \in new } = { added[n] : n \in 1..Len(added) }
            /\ findSent(out').count = Cardinality(nowPending)
            /\ findSent(out').locs = { o.loc : o \in nowPending }
            /\ \A n \in 1..Len(out') :
                 eventAt(out', n, "ready") =>
                   /\ ~ (listening /\ boot.pending = 0)
                   /\ \A m \in 1..(n - 1) : ~ eventAt(out', m, "ready")
                   /\ boot'.pending = 0
                   /\ findObjects(pendingQueries', waitingQueries') = {}
                   /\ out'[n].val = Len(visitedLocs(boot'))]_vars

(***************************************************************************)
(* Claims about the refresh of the routing table.                          *)
(***************************************************************************)
idsOf(contacts) == { contacts[n].id : n \in 1..Len(contacts) }

\* the contacts marked and pinged by an earlier refresh and not added again
\* since: addContact on my.table sets the time of the contact to Date.now()
staleIn(t) == { n \in 1..Len(allContacts(t)) : allContacts(t)[n].time = 0 }

splits(t, id) ==
  LET f == findContact(t, id)
      b == bucket(t.tree, f.y, f.z)
  IN  /\ ~ (~ t.isTemp /\ id = t.id)
      /\ f.z = 1 /\ f.i = Len(b) /\ Len(b) >= t.maxContacts

\* the sequence holds the same contacts as the set, each once
holdsEach(seq, set) ==
  /\ { seq[n] : n \in 1..Len(seq) } = set
  /\ Len(seq) = Cardinality(set)

\* C33: adding a contact with a new id to a full element 1 bucket of the
\* tip grows the tree by exactly one node; afterwards the new tip node
\* holds exactly the former contacts of that bucket and the added one, the
\* bucket is empty, every other bucket is unchanged and numContacts is one
\* more, so no contact is lost.
C33_SplitKeepsContacts ==
  \A id \in TableIds :
    splits(table, id) =>
      \A t1 \in { addContact(table, [ id |-> id, loc |-> Loc(2), time |-> NoTime ], now) } :
        LET tip == tipOf(table)
            former == bucket(table.tree, tip, 1)
            added == [ id |-> id, loc |-> Loc(2), time |-> now ]
        IN  /\ Len(t1.tree) = Len(table.tree) + 1
            /\ holdsEach(bucket(t1.tree, tip + 1, 0) \o bucket(t1.tree, tip + 1, 1),
                         { former[n] : n \in 1..Len(former) } \cup { added })
            /\ Len(former) = table.maxContacts =>
                 Len(bucket(t1.tree, tip + 1, 0)) + Len(bucket(t1.tree, tip + 1, 1))
                   = table.maxContacts + 1
            /\ bucket(t1.tree, tip, 1) = <<>>
            /\ \A y \in 0..tip : bucket(t1.tree, y, 0) = bucket(table.tree, y, 0)
            /\ t1.numContacts = table.numContacts + 1
            /\ Len(allContacts(t1)) = Len(allContacts(table)) + 1

\* a table whose tip's element 1 bucket holds maxContacts contacts, and an
\* id that splits it
C33_Witness ==
  /\ last.op = "addContact"
  /\ Len(bucket(table.tree, tipOf(table), 1)) = table.maxContacts
  /\ \E id \in TableIds :
       /\ splits(table, id)
       /\ Len(addContact(table, [ id |-> id, loc |-> Loc(2), time |-> NoTime ], now).tree)
            = Len(table.tree) + 1

(***************************************************************************)
(* Claims about temporary tables.                                          *)
(***************************************************************************)
\* C34: createTempTable(id) leaves the source table as it was, its tree,
\* its numContacts and the time of every contact, and so does every
\* addContact on the temporary table afterwards.
C34_TempLeavesSource ==
  [][last'.op \in { "createTempTable", "tempAdd" } => table' = table]_vars

\* a temporary table made of a table that has split and holds a stale
\* contact has taken a contact more
C34_Witness ==
  /\ last.op = "tempAdd"
  /\ tipOf(table) >= 1
  /\ staleIn(table) # {}
  /\ acts[1].table.numContacts > Len(allContacts(table))

(***************************************************************************)
(* Claims about the senders of queries.                                    *)
(***************************************************************************)
\* a sender whose id shares its first oqMatch bytes with my.id
NearSender == [ id |-> NearId, n |-> 14, port |-> 6881 ]

\* queries with t, q, a and a 20-byte a.id: a ping, a find_node, a verb
\* that is unknown, an announce_peer with a token that is not valid, and a
\* find_node with a target of two bytes
withId(s) ==
  { queryOf(s, "ping", emptyObject),
    findNode(s),
    queryOf(s, "vote", [ target |-> Target ]),
    queryOf(s, "announce_peer", [ info_hash |-> Target, token |-> << 1 >>, port |-> 7001 ]),
    queryOf(s, "find_node", [ target |-> << 1, 2 >> ]) }

\* C35: every query with t, q, a and a 20-byte a.id that sr.recv passes on
\* offers its sender, a.id at the address and port of the datagram, to
\* my.table, whatever the verb and whether the query is rejected or not,
\* unless a.id shares its leading bytes with my.id.
C35_SenderOffered ==
  \A s \in Senders \cup { NearSender } :
    \A mess \in withId(s) :
      (listening /\ passes(Node, s, 1)) =>
        \A S \in { recv(Node, mess, rinfoOf(s)) } :
          S.table = utAddContact(table, s.id, locOf(s), now)

(***************************************************************************)
(* Claims about decode.                                                    *)
(***************************************************************************)
\* C36: for every byte string decode comes to an end and returns the
\* decoded value or null: it does not throw and does not loop without end,
\* also when a length prefix is negative or larger than what is left of
\* the input.
C36_DecodeReturns ==
  /\ [](dec.mode = "done" => dec.result \in { "value", "null" })
  /\ (dec.mode \in { "next", "loop" }) ~> (dec.mode = "done")

(***************************************************************************)
(* Claims about the number of contacts.                                    *)
(***************************************************************************)
\* C37: after any sequence of addContact and refreshTable calls, splits,
\* drops and the rebuild of the tree included, numContacts is the number of
\* contacts allContacts returns, and a contact leaves the table only when a
\* refresh drops it as stale.
C37_NumContactsIsCount ==
  /\ [](table.numContacts = Len(allContacts(table)))
  /\ [][\A n \in 1..Len(allContacts(table)) :
          allContacts(table)[n].id \notin idsOf(allContacts(table')) =>
            (last'.op = "refreshTable" /\ n \in staleIn(table))]_vars

(***************************************************************************)
(* Claims about the waiting queue under load.                              *)
(***************************************************************************)
\* the query object was taken from the waiting queue and sent
promotedAndSent(qid) ==
  /\ qid \in DOMAIN qlog
  /\ qlog[qid].promoted /\ qlog[qid].sent >= 1
  /\ ~ inWaiting(waitingQueries, qid)

\* C38: every query placed in the waiting queue is eventually promoted and
\* transmitted, however many further queries are issued meanwhile, as long
\* as the check tick keeps firing.
C38_WaitingIsPromoted ==
  \A qid \in 1..MaxAlive : inWaiting(waitingQueries, qid) ~> promotedAndSent(qid)

(***************************************************************************)
(* Claims about the senders of responses.                                  *)
(***************************************************************************)
\* the handler called the continuation of the query object qid with a
\* response
calledWithResponse(log, qid) ==
  \E n \in 1..Len(log) :
    log[n].type = "call" /\ log[n].qid = qid /\ log[n].res # Null

\* C39: the continuation of a query sent to location L is invoked with a
\* response only if the datagram came from L: a datagram from another
\* address or port that carries the transaction id of a pending query
\* neither completes the query nor adds its sender to the routing table.
C39_ResponseFromQueried ==
  \A t \in DOMAIN pendingQueries : \A r \in PopRs : \A rinfo \in PopRinfos :
    (listening /\ makeLoc(rinfo.address, rinfo.port) # pendingQueries[t].done.loc) =>
      \A S \in { recv(Node, [ t |-> intToBuff2(t), y |-> "r", r |-> r ], rinfo) } :
        /\ ~ calledWithResponse(S.out, pendingQueries[t].qid)
        /\ inPending(S.pendingQueries, pendingQueries[t].qid)
        /\ S.table = table

(***************************************************************************)
(* Claims about the data store.                                            *)
(***************************************************************************)
\* the datum is mutable data of the key k under the salt: its target is the
\* digest of k and the salt, and its signature is that of k over seq, v and
\* the salt
storedUnderSalt(entry, salt) ==
  /\ entry.target = makeMutableTarget(entry.datum.k, salt)
  /\ entry.datum.sig
       = sign(packSeqSalt(entry.datum.seq, entry.datum.v, salt), entry.datum.k)

\* C40: every datum of the data store is consistent with its key: a datum
\* without k is stored under the digest of encode(v), and a datum with k,
\* seq and sig is stored under the digest of k and a salt (of k alone
\* without salt), its signature verifies over seq, v and that salt, and
\* encode(v) has at most maxV bytes
C40_DatumMatchesKey ==
  \A n \in 1..Len(data) :
    /\ ~ Has(data[n].datum, "k") =>
         data[n].target = makeImmutableTarget(data[n].datum.v)
    /\ (Has(data[n].datum, "k") /\ Has(data[n].datum, "seq")
          /\ Has(data[n].datum, "sig")) =>
         /\ \/ storedUnderSalt(data[n], Null)
            \/ \E salt \in PutSalts : storedUnderSalt(data[n], salt)
         /\ Len(encodeBuff(data[n].datum.v)) <= maxV

\* the store holds immutable data and mutable data put with a salt
C40_Witness ==
  /\ \E n \in 1..Len(data) : ~ Has(data[n].datum, "k")
  /\ \E n \in 1..Len(data) :
       /\ Has(data[n].datum, "k")
       /\ data[n].target = makeMutableTarget(PublicKey, << 115 >>)
       /\ Len(encodeBuff(data[n].datum.v)) = maxV

\* nodes holds min(numClosest, n) of the n contacts of the table, and no
\* contact left out is strictly closer to target than one in nodes
closestOf(tbl, target, nodes) ==
  LET contacts == allContacts(tbl)
      ids == { contacts[n].id : n \in 1..Len(contacts) }
      returned == splitBuff(nodes, nodeLen)
      got == { slice(returned[n], 0, idLen) : n \in 1..Len(returned) }
  IN  /\ Len(returned) = Min(numClosest, Len(contacts))
      /\ got \subseteq ids
      /\ \A c \in ids \ got : \A r \in got : ~ closer(c, r, target)

\* C10: in every reachable state, the nodes of the answer to a find_node
\* query for a target are the min(K, n) contacts of my.table closest to the
\* target in XOR distance: no contact left out is strictly closer to the
\* target than a contact returned.
C10_ClosestNodesReturned ==
  \A s \in Senders :
    \A S \in { recv(Node, findNode(s), rinfoOf(s)) } :
      \A n \in 1..Len(S.out) :
        (/\ S.out[n].type = "send"
         /\ S.out[n].mess.y = "r"
         /\ Has(S.out[n].mess.r, "nodes")) =>
          closestOf(S.table, Target, S.out[n].mess.r.nodes)

====
